---- MODULE Spec2Model ----
(***************************************************************************)
(* QuantME transformation framework: the matcher (QuantMEMatcher.js), the  *)
(* helpers (quantme/Utilities.js) and the transformation pass              *)
(* (quantme/replacement/QuantMETransformator.js) as a state machine.       *)
(*                                                                         *)
(* Representation.  A JavaScript object is a function from its own keys    *)
(* (strings) to values; a key that is not in the DOMAIN reads as           *)
(* undefined.  A string value is a sequence of one-character strings, so   *)
(* that trim, includes and split are computed and not assumed.  An object  *)
(* reference is the id of the object inside its document; 0 is the         *)
(* undefined reference.  An optional object is <<>> or <<object>>.         *)
(***************************************************************************)
EXTENDS Integers, Sequences, FiniteSets, TLC

VARIABLES
    call,   \* the pure function under evaluation and its arguments
    ret     \* <<>> before the call returns, <<value>> afterwards

pureVars == <<call, ret>>

VARIABLES
    QRMs,             \* the module-level template collection (let QRMs)
    rootElements,     \* bpmnjs.getDefinitions().rootElements, as ids
    registry,         \* the elements of the diagram, id -> object
    nextId,           \* the id the host gives to the next new element
    hostCalls,        \* calls to bpmnReplace and modeling, in order
    failOp,           \* the element-yielding host call that is refused (0: none)
    pc,               \* where the pass of startReplacementProcess stands
    replacementTasks, \* the discovered tasks: [task, parent, qrm]
    k,                \* index of the task the pass is working on
    i,                \* loop index of getMatchingQRM
    qrmArg,              \* <<template>> handed to the suspended matchesQRM
    matched,            \* what getMatchingQRM returned: <<>> or <<template>>
    result,           \* outcome of the last replaceByFragment
    notifications,    \* ids of the tasks named in 'Notification.display'
    layoutCalls,      \* number of calls of layout
    updates,          \* number of 'QRMs.updated' events received
    snapshot          \* history: the collection read when Resolving began

passVars == <<QRMs, rootElements, registry, nextId, hostCalls, failOp, pc,
              replacementTasks, k, i, qrmArg, matched, result, notifications,
              layoutCalls, updates, snapshot>>

vars == <<call, ret, QRMs, rootElements, registry, nextId, hostCalls, failOp, pc,
          replacementTasks, k, i, qrmArg, matched, result, notifications,
          layoutCalls, updates, snapshot>>

----------------------------------------------------------------------------
(* Bounds of the model *)

\* longest attribute value (in characters) the matcher is evaluated on
MaxStrLen == 3

\* most flow nodes (at any depth) of a process graph given to discovery
MaxNodes == 4

\* most 'QRMs.updated' events delivered in one behaviour
MaxUpdates == 1

\* templates in a collection of SpecResolve
MaxQRMs == 3

\* most elements inside the sub-process of a fragment of SpecSplice
MaxElements == 2

\* most properties in a group of alternatives of SpecAlternative
MaxAlternatives == 2
MaxFailOp == 3

----------------------------------------------------------------------------
(* Strings *)

\* the characters attribute values are built from: a letter, the blank that
\* trim() removes, the list separator and the wildcard character
Char == {"a", " ", ",", "*"}

\* JavaScript's undefined in a position that otherwise holds a string
Undefined == <<"undefined">>

Wildcard == <<"*">>

StrOfLen(n) == [1..n -> Char]

Str == UNION {StrOfLen(n) : n \in 0..MaxStrLen}

\* String.prototype.includes(',')
includes(s, c) == \E p \in 1..Len(s) : s[p] = c

RECURSIVE trimStart(_)
trimStart(s) == IF s # <<>> /\ Head(s) = " " THEN trimStart(Tail(s)) ELSE s

RECURSIVE trimEnd(_)
trimEnd(s) ==
    IF s # <<>> /\ s[Len(s)] = " " THEN trimEnd(SubSeq(s, 1, Len(s) - 1)) ELSE s

\* String.prototype.trim()
trim(s) == trimEnd(trimStart(s))

\* String.prototype.split(c): the pieces between the separators, empty
\* pieces included; a string without separator is its own single piece
RECURSIVE split(_, _)
split(s, c) ==
    IF ~includes(s, c) THEN <<s>>
    ELSE LET p == CHOOSE q \in 1..Len(s) :
                      s[q] = c /\ \A r \in 1..(q - 1) : s[r] # c
         IN <<SubSeq(s, 1, p - 1)>> \o split(SubSeq(s, p + 1, Len(s)), c)

----------------------------------------------------------------------------
(* QuantMEMatcher: attribute matching *)

\* mutant: an undefined detector value is treated like an optional one
matchesPropertyLenient(detectorProperty, taskProperty, required) ==
    IF detectorProperty = Undefined THEN ~required
    ELSE IF detectorProperty = Wildcard THEN TRUE
    ELSE IF taskProperty = Undefined THEN ~required
    ELSE IF includes(detectorProperty, ",")
         THEN LET valueList == split(detectorProperty, ",")
              IN \E n \in 1..Len(valueList) : trim(valueList[n]) = trim(taskProperty)
    ELSE trim(detectorProperty) = trim(taskProperty)

\* mutant: the test for an absent task value comes before the wildcard test
matchesPropertyAbsentFirst(detectorProperty, taskProperty, required) ==
    IF detectorProperty = Undefined THEN FALSE
    ELSE IF taskProperty = Undefined THEN ~required
    ELSE IF detectorProperty = Wildcard THEN TRUE
    ELSE IF includes(detectorProperty, ",")
         THEN LET valueList == split(detectorProperty, ",")
              IN \E n \in 1..Len(valueList) : trim(valueList[n]) = trim(taskProperty)
    ELSE trim(detectorProperty) = trim(taskProperty)

\* mutant: an absent task value never matches
matchesPropertyAbsentFails(detectorProperty, taskProperty, required) ==
    IF detectorProperty = Undefined THEN FALSE
    ELSE IF detectorProperty = Wildcard THEN TRUE
    ELSE IF taskProperty = Undefined THEN FALSE
    ELSE IF includes(detectorProperty, ",")
         THEN LET valueList == split(detectorProperty, ",")
              IN \E n \in 1..Len(valueList) : trim(valueList[n]) = trim(taskProperty)
    ELSE trim(detectorProperty) = trim(taskProperty)

\* mutant: the entries of a list are compared without being trimmed
matchesPropertyEntriesUntrimmed(detectorProperty, taskProperty, required) ==
    IF detectorProperty = Undefined THEN FALSE
    ELSE IF detectorProperty = Wildcard THEN TRUE
    ELSE IF taskProperty = Undefined THEN ~required
    ELSE IF includes(detectorProperty, ",")
         THEN LET valueList == split(detectorProperty, ",")
              IN \E n \in 1..Len(valueList) : valueList[n] = trim(taskProperty)
    ELSE trim(detectorProperty) = trim(taskProperty)

matchesProperty(detectorProperty, taskProperty, required) ==
    IF detectorProperty = Undefined THEN FALSE
    ELSE IF detectorProperty = Wildcard THEN TRUE
    ELSE IF taskProperty = Undefined THEN ~required
    ELSE IF includes(detectorProperty, ",")
         THEN LET valueList == split(detectorProperty, ",")
              IN \E n \in 1..Len(valueList) : trim(valueList[n]) = trim(taskProperty)
    ELSE trim(detectorProperty) = trim(taskProperty)

\* the loop of matchAlternativeProperties from position n on, with the
\* alternative found so far: <<"false">> once a second defined task property
\* is met, else <<"found", taskAlternative, detectorAlternative>>
RECURSIVE matchAlternativeLoop(_, _, _, _, _)
matchAlternativeLoop(detectorProperties, taskProperties, n, taskAlternative, detectorAlternative) ==
    IF n > Len(taskProperties) THEN <<"found", taskAlternative, detectorAlternative>>
    ELSE IF taskProperties[n] # Undefined
         THEN IF taskAlternative # Undefined THEN <<"false">>
              ELSE matchAlternativeLoop(detectorProperties, taskProperties, n + 1,
                                        taskProperties[n], detectorProperties[n])
    ELSE matchAlternativeLoop(detectorProperties, taskProperties, n + 1,
                              taskAlternative, detectorAlternative)

\* mutant: of several defined task properties the last one is taken
matchAlternativePropertiesLastSet(detectorProperties, taskProperties) ==
    IF Len(detectorProperties) # Len(taskProperties) THEN FALSE
    ELSE LET set == {n \in 1..Len(taskProperties) : taskProperties[n] # Undefined}
         IN IF set = {} THEN matchesProperty(Undefined, Undefined, TRUE)
            ELSE LET last == CHOOSE n \in set : \A m \in set : m <= n
                 IN matchesProperty(detectorProperties[last], taskProperties[last], TRUE)

\* mutant: the task property found is compared with the first detector
\* property
matchAlternativePropertiesFirstDetector(detectorProperties, taskProperties) ==
    IF Len(detectorProperties) # Len(taskProperties) THEN FALSE
    ELSE LET alternative == matchAlternativeLoop(detectorProperties, taskProperties, 1,
                                           Undefined, Undefined)
         IN IF alternative[1] = "false" THEN FALSE
            ELSE IF detectorProperties = <<>> THEN FALSE
            ELSE matchesProperty(detectorProperties[1], alternative[2], TRUE)

matchAlternativeProperties(detectorProperties, taskProperties) ==
    IF Len(detectorProperties) # Len(taskProperties) THEN FALSE
    ELSE LET alternative == matchAlternativeLoop(detectorProperties, taskProperties, 1,
                                           Undefined, Undefined)
         IN IF alternative[1] = "false" THEN FALSE
            ELSE matchesProperty(alternative[3], alternative[2], TRUE)

----------------------------------------------------------------------------
(* Objects, types and documents *)

\* a type name 'prefix:name' is the pair <<prefix, name>>
Type(prefix, name) == <<prefix, name>>

\* String.prototype.startsWith('prefix:') on a type name
startsWith(type, prefix) == type[1] = prefix

ProcessType == Type("bpmn", "Process")
SubProcessType == Type("bpmn", "SubProcess")
SequenceFlowType == Type("bpmn", "SequenceFlow")
AssociationType == Type("bpmn", "Association")
BoundaryEventType == Type("bpmn", "BoundaryEvent")

\* the undefined object reference
NoElement == 0

\* object.key for a key that holds a string: undefined when the object does
\* not own the key
Get(object, key) == IF key \in DOMAIN object THEN object[key] ELSE Undefined

\* Utilities.isQuantMETask
isQuantMETask(task) == startsWith(task["$type"], "quantme")

\* Utilities.getRootProcess: the first root element of type bpmn:Process,
\* undefined when there is none
RECURSIVE getRootProcessLoop(_, _)
getRootProcessLoop(definitions, n) ==
    IF n > Len(definitions.rootElements) THEN NoElement
    ELSE IF definitions.nodes[definitions.rootElements[n]]["$type"] = ProcessType
         THEN definitions.rootElements[n]
    ELSE getRootProcessLoop(definitions, n + 1)

getRootProcess(definitions) == getRootProcessLoop(definitions, 1)

\* Utilities.getSingleFlowElement raises a TypeError when the process is
\* undefined (process.flowElements) or has no flowElements (flowElements.length)
getSingleFlowElementThrows(definitions, process) ==
    \/ process = NoElement
    \/ "flowElements" \notin DOMAIN definitions.nodes[process]

\* mutant: of several flow elements the first is taken
getSingleFlowElementFirst(definitions, process) ==
    LET flowElements == definitions.nodes[process]["flowElements"]
    IN IF Len(flowElements) = 0 THEN NoElement ELSE flowElements[1]

\* Utilities.getSingleFlowElement, when it does not throw
getSingleFlowElement(definitions, process) ==
    LET flowElements == definitions.nodes[process]["flowElements"]
    IN IF Len(flowElements) # 1 THEN NoElement ELSE flowElements[1]

----------------------------------------------------------------------------
(* QuantMEMatcher: detector matching *)

matchQuantumComputationTask(detectorElement, task) ==
    /\ matchesProperty(Get(detectorElement, "algorithm"), Get(task, "algorithm"), TRUE)
    /\ matchesProperty(Get(detectorElement, "provider"), Get(task, "provider"), FALSE)

matchQuantumCircuitLoadingTask(detectorElement, task) ==
    LET detectorAlternatives == <<Get(detectorElement, "quantumCircuit"), Get(detectorElement, "url")>>
        taskAlternatives == <<Get(task, "quantumCircuit"), Get(task, "url")>>
    IN matchAlternativeProperties(detectorAlternatives, taskAlternatives)

matchDataPreparationTask(detectorElement, task) ==
    /\ matchesProperty(Get(detectorElement, "encodingSchema"), Get(task, "encodingSchema"), TRUE)
    /\ matchesProperty(Get(detectorElement, "programmingLanguage"), Get(task, "programmingLanguage"), TRUE)

matchOracleExpansionTask(detectorElement, task) ==
    LET detectorAlternatives == <<Get(detectorElement, "oracleCircuit"), Get(detectorElement, "oracleURL")>>
        taskAlternatives == <<Get(task, "oracleCircuit"), Get(task, "oracleURL")>>
    IN /\ matchesProperty(Get(detectorElement, "oracleId"), Get(task, "oracleId"), TRUE)
       /\ matchesProperty(Get(detectorElement, "programmingLanguage"), Get(task, "programmingLanguage"), TRUE)
       /\ matchAlternativeProperties(detectorAlternatives, taskAlternatives)

matchQuantumCircuitExecutionTask(detectorElement, task) ==
    /\ matchesProperty(Get(detectorElement, "provider"), Get(task, "provider"), FALSE)
    /\ matchesProperty(Get(detectorElement, "qpu"), Get(task, "qpu"), FALSE)
    /\ matchesProperty(Get(detectorElement, "shots"), Get(task, "shots"), FALSE)
    /\ matchesProperty(Get(detectorElement, "programmingLanguage"), Get(task, "programmingLanguage"), TRUE)

\* mutant: maxAge is a required attribute
matchReadoutErrorMitigationTaskMaxAgeRequired(detectorElement, task) ==
    /\ matchesProperty(Get(detectorElement, "unfoldingTechnique"), Get(task, "unfoldingTechnique"), TRUE)
    /\ matchesProperty(Get(detectorElement, "qpu"), Get(task, "qpu"), TRUE)
    /\ matchesProperty(Get(detectorElement, "maxAge"), Get(task, "maxAge"), TRUE)

matchReadoutErrorMitigationTask(detectorElement, task) ==
    /\ matchesProperty(Get(detectorElement, "unfoldingTechnique"), Get(task, "unfoldingTechnique"), TRUE)
    /\ matchesProperty(Get(detectorElement, "qpu"), Get(task, "qpu"), TRUE)
    /\ matchesProperty(Get(detectorElement, "maxAge"), Get(task, "maxAge"), FALSE)

taskMatchesDetector(detectorElement, task) ==
    IF detectorElement["$type"] # task["$type"] THEN FALSE
    ELSE CASE task["$type"] = Type("quantme", "QuantumComputationTask") ->
                  matchQuantumComputationTask(detectorElement, task)
           [] task["$type"] = Type("quantme", "QuantumCircuitLoadingTask") ->
                  matchQuantumCircuitLoadingTask(detectorElement, task)
           [] task["$type"] = Type("quantme", "DataPreparationTask") ->
                  matchDataPreparationTask(detectorElement, task)
           [] task["$type"] = Type("quantme", "OracleExpansionTask") ->
                  matchOracleExpansionTask(detectorElement, task)
           [] task["$type"] = Type("quantme", "QuantumCircuitExecutionTask") ->
                  matchQuantumCircuitExecutionTask(detectorElement, task)
           [] task["$type"] = Type("quantme", "ReadoutErrorMitigationTask") ->
                  matchReadoutErrorMitigationTask(detectorElement, task)
           [] OTHER -> FALSE

\* matchesQRM rejects (its getSingleFlowElement call throws) when the
\* detector has no root process
matchesQRMThrows(qrm) ==
    getSingleFlowElementThrows(qrm["detector"], getRootProcess(qrm["detector"]))

\* matchesQRM after its await of the parsed detector, when it does not throw
matchesQRM(qrm, task) ==
    LET rootProcess == getRootProcess(qrm["detector"])
        detectorElement == getSingleFlowElement(qrm["detector"], rootProcess)
    IN IF detectorElement = NoElement
          \/ ~isQuantMETask(qrm["detector"].nodes[detectorElement])
       THEN FALSE
       ELSE taskMatchesDetector(qrm["detector"].nodes[detectorElement], task)

----------------------------------------------------------------------------
(* QuantMETransformator: discovery of the QuantME tasks *)

\* mutant: the tasks of a sub-process are paired with the outer container
RECURSIVE getQuantMETasksOuterLoop(_, _, _, _)
getQuantMETasksOuterLoop(elementRegistry, process, outer, n) ==
    LET flowElements == elementRegistry[process]["flowElements"]
    IN IF n > Len(flowElements) THEN <<>>
       ELSE LET flowElement == elementRegistry[flowElements[n]]
            IN (IF startsWith(flowElement["$type"], "quantme")
                THEN <<[task |-> flowElements[n], parent |-> outer]>> ELSE <<>>)
               \o (IF flowElement["$type"] = SubProcessType
                   THEN getQuantMETasksOuterLoop(elementRegistry, flowElements[n], outer, 1)
                   ELSE <<>>)
               \o getQuantMETasksOuterLoop(elementRegistry, process, outer, n + 1)

getQuantMETasksOuter(elementRegistry, process) ==
    getQuantMETasksOuterLoop(elementRegistry, process, process, 1)

\* the loop of getQuantMETasks from position n of process.flowElements on;
\* a task is recorded by its id, its parent by the id the element registry
\* holds for the process
RECURSIVE getQuantMETasksLoop(_, _, _)
getQuantMETasksLoop(elementRegistry, process, n) ==
    LET processBo == elementRegistry[process]["id"]
        flowElements == elementRegistry[process]["flowElements"]
    IN IF n > Len(flowElements) THEN <<>>
       ELSE LET flowElement == elementRegistry[flowElements[n]]
            IN (IF startsWith(flowElement["$type"], "quantme")
                THEN <<[task |-> flowElements[n], parent |-> processBo]>> ELSE <<>>)
               \o (IF flowElement["$type"] = SubProcessType
                   THEN getQuantMETasksLoop(elementRegistry, flowElements[n], 1)
                   ELSE <<>>)
               \o getQuantMETasksLoop(elementRegistry, process, n + 1)

getQuantMETasks(elementRegistry, process) ==
    getQuantMETasksLoop(elementRegistry, process, 1)

----------------------------------------------------------------------------
(* Specification SpecDiscover: getQuantMETasks on every bounded process graph *)

\* the elements of a finite set of ids in increasing order
RECURSIVE SortedSeq(_)
SortedSeq(S) ==
    IF S = {} THEN <<>>
    ELSE LET m == CHOOSE x \in S : \A y \in S : x <= y
         IN <<m>> \o SortedSeq(S \ {m})

\* the kinds of flow nodes of a generated process graph: a QuantME task, a
\* sub-process and a node that is neither
NodeTypes == {Type("quantme", "QuantumComputationTask"), SubProcessType,
              Type("bpmn", "StartEvent")}

\* the root process has id 1, the other nodes the ids 2..n+1
RootId == 1

\* the chain of parents of x reaches the root within fuel steps
RECURSIVE ReachesRoot(_, _, _)
ReachesRoot(parent, x, fuel) ==
    \/ x = RootId
    \/ fuel > 0 /\ ReachesRoot(parent, parent[x], fuel - 1)

\* the containers of a graph with the given node types
Containers(n, types) == {RootId} \cup {x \in 2..(n + 1) : types[x] = SubProcessType}

\* every node lies in the root process or in a sub-process, without cycle
WellNested(n, types, parent) ==
    \A x \in 2..(n + 1) : parent[x] # x /\ ReachesRoot(parent, x, n)

\* the process graph with the given node types and containment; the
\* children of a container are listed in increasing id
GraphOf(n, types, parent) ==
    [x \in 1..(n + 1) |->
        LET children == SortedSeq({y \in 2..(n + 1) : parent[y] = x})
        IN IF x = RootId
           THEN ("$type" :> ProcessType) @@ ("id" :> x) @@ ("flowElements" :> children)
           ELSE IF types[x] = SubProcessType
           THEN ("$type" :> types[x]) @@ ("id" :> x) @@ ("flowElements" :> children)
           ELSE ("$type" :> types[x]) @@ ("id" :> x)]

\* a call of getQuantMETasks on each process graph of at most MaxNodes nodes
\* the replacement pass has not been constructed: its state is empty
PassUnused ==
    /\ QRMs = <<>>
    /\ rootElements = <<>>
    /\ registry = <<>>
    /\ nextId = 0
    /\ hostCalls = <<>>
    /\ failOp = 0
    /\ pc = "Idle"
    /\ replacementTasks = <<>>
    /\ k = 0
    /\ i = 0
    /\ qrmArg = <<>>
    /\ matched = <<>>
    /\ result = <<>>
    /\ notifications = <<>>
    /\ layoutCalls = 0
    /\ updates = 0
    /\ snapshot = <<>>

InitDiscover ==
    /\ PassUnused
    /\ \E n \in 0..MaxNodes :
         \E types \in [2..(n + 1) -> NodeTypes] :
            \E parent \in [2..(n + 1) -> Containers(n, types)] :
               /\ WellNested(n, types, parent) = TRUE
               /\ call = [fn |-> "getQuantMETasks", n |-> n, parent |-> parent,
                          registry |-> GraphOf(n, types, parent)]
    /\ ret = <<>>

CallGetQuantMETasks ==
    /\ call.fn = "getQuantMETasks"
    /\ ret = <<>>
    /\ ret' = <<getQuantMETasks(call.registry, RootId)>>
    /\ UNCHANGED call

NextDiscover == CallGetQuantMETasks /\ UNCHANGED passVars

SpecDiscover == InitDiscover /\ [][NextDiscover]_vars

\* the ids of the containers around x, outermost first, followed by x
RECURSIVE PathTo(_, _)
PathTo(parent, x) == IF x = RootId THEN <<>> ELSE PathTo(parent, parent[x]) \o <<x>>

\* a comes before b in the pre-order walk: at the first position where the
\* two paths differ a's node is the earlier sibling (a container is never a
\* task, so neither path is a prefix of the other)
RECURSIVE PathBefore(_, _)
PathBefore(p, q) ==
    /\ p # <<>> /\ q # <<>>
    /\ \/ Head(p) < Head(q)
       \/ Head(p) = Head(q) /\ PathBefore(Tail(p), Tail(q))

----------------------------------------------------------------------------
(* The graph host: element registry, bpmnReplace and modeling *)

\* A host state h is a record:
\*   registry   the elements of the diagram, by id (elementRegistry)
\*   nextId     the id the host gives to the next element it creates
\*   idMap      ids of the replacement fragment -> ids of the new elements
\*   hostCalls  the calls made to bpmnReplace and modeling, in order
\*   yields     how many calls so far had to yield an element
\*   failOp     the element-yielding call the host refuses (0: none)
\*   thrown     an exception is propagating

\* a reference to the object with the given id of the diagram or of the
\* parsed replacement fragment
Ref(doc, id) == [doc |-> doc, id |-> id]

\* elementRegistry.get(id): the id itself when registered, else undefined
registryGet(h, id) == IF id \in DOMAIN h.registry THEN id ELSE NoElement

\* idMap[id]
idMapGet(h, id) == IF id \in DOMAIN h.idMap THEN h.idMap[id] ELSE NoElement

Throw(h) == [host |-> [h EXCEPT !.thrown = TRUE], element |-> NoElement]

\* the host refuses this call: nothing is created and no element is yielded
Refused(h, op, on) ==
    [host |-> [h EXCEPT !.yields = @ + 1,
                        !.hostCalls = Append(@, [op |-> op, element |-> NoElement, on |-> on])],
     element |-> NoElement]

Refuses(h) == h.yields + 1 = h.failOp

\* sequence s with every old replaced by new
ReplaceInSeq(s, old, new) == [n \in 1..Len(s) |-> IF s[n] = old THEN new ELSE s[n]]

\* object with its references to element old of the diagram moved to new
Repoint(object, old, new) ==
    [key \in DOMAIN object |->
        IF key = "flowElements" THEN ReplaceInSeq(object[key], old, new)
        ELSE IF key \in {"sourceRef", "targetRef", "attachedToRef"}
                /\ object[key] = Ref("diagram", old)
             THEN Ref("diagram", new)
        ELSE IF key = "host" /\ object[key] = old THEN new
        ELSE object[key]]

\* object with child appended to its flowElements
AppendChild(object, child) ==
    IF "flowElements" \in DOMAIN object
    THEN [object EXCEPT !["flowElements"] = Append(@, child)]
    ELSE ("flowElements" :> <<child>>) @@ object

\* bpmnReplace.replaceElement(old, {type}): a new element of the type takes
\* the place of old in its container; the edges and attachments of old are
\* kept and now end at the new element
replaceElement(h, old, type) ==
    IF old = NoElement \/ Refuses(h) THEN Refused(h, "replaceElement", old)
    ELSE LET new == h.nextId
             created == ("$type" :> type) @@ ("id" :> new)
                        @@ ("$parent" :> h.registry[old]["$parent"])
         IN [host |-> [h EXCEPT
                  !.registry = [x \in (DOMAIN h.registry \ {old}) \cup {new} |->
                                   IF x = new THEN created
                                   ELSE Repoint(h.registry[x], old, new)],
                  !.nextId = new + 1,
                  !.yields = @ + 1,
                  !.hostCalls = Append(@, [op |-> "replaceElement", element |-> new, on |-> old])],
             element |-> new]

\* modeling.createShape({type}, position, parent, {})
createShape(h, type, parent) ==
    IF Refuses(h) THEN Refused(h, "createShape", parent)
    ELSE LET new == h.nextId
             created == ("$type" :> type) @@ ("id" :> new) @@ ("$parent" :> parent)
         IN [host |-> [h EXCEPT
                  !.registry = [x \in DOMAIN h.registry \cup {new} |->
                                   IF x = new THEN created
                                   ELSE IF x = parent THEN AppendChild(h.registry[x], new)
                                   ELSE h.registry[x]],
                  !.nextId = new + 1,
                  !.yields = @ + 1,
                  !.hostCalls = Append(@, [op |-> "createShape", element |-> new, on |-> parent])],
             element |-> new]

\* modeling.connect(source, target, {type}): the connection is created in the
\* container of its source; without both end points there is no connection
connect(h, source, target, type) ==
    IF source = NoElement \/ target = NoElement \/ Refuses(h)
    THEN Refused(h, "connect", source)
    ELSE LET new == h.nextId
             parent == h.registry[source]["$parent"]
             created == ("$type" :> type) @@ ("id" :> new) @@ ("$parent" :> parent)
                        @@ ("sourceRef" :> Ref("diagram", source))
                        @@ ("targetRef" :> Ref("diagram", target))
         IN [host |-> [h EXCEPT
                  !.registry = [x \in DOMAIN h.registry \cup {new} |->
                                   IF x = new THEN created
                                   ELSE IF x = parent THEN AppendChild(h.registry[x], new)
                                   ELSE h.registry[x]],
                  !.nextId = new + 1,
                  !.yields = @ + 1,
                  !.hostCalls = Append(@, [op |-> "connect", element |-> new, on |-> source])],
             element |-> new]

\* modeling.updateProperties(element, properties): every given property is
\* set on the element
updateProperties(h, element, properties) ==
    [h EXCEPT !.registry[element] = properties @@ @,
              !.hostCalls = Append(@, [op |-> "updateProperties", element |-> element,
                                       on |-> element])]

----------------------------------------------------------------------------
(* Utilities: what insertShape takes from the fragment *)

\* Utilities.isFlowLikeElement
isFlowLikeElement(type) == type = SequenceFlowType \/ type = AssociationType

\* key.startsWith('$') for the keys objects of the model own
startsWithDollar(key) == key \in {"$type", "$parent", "$attrs"}

\* mutant: the artifacts are copied with the other properties
getPropertiesToCopyWithArtifacts(element) ==
    [key \in {own \in DOMAIN element :
                 /\ ~startsWithDollar(own)
                 /\ own # "id"
                 /\ own # "flowElements"} |-> element[key]]

\* Utilities.getPropertiesToCopy
getPropertiesToCopy(element) ==
    [key \in {own \in DOMAIN element :
                 /\ ~startsWithDollar(own)
                 /\ own # "id"
                 /\ own # "flowElements"
                 /\ own # "artifacts"} |-> element[key]]

----------------------------------------------------------------------------
(* QuantMETransformator: insertion of a replacement fragment *)

\* the flowElements that are neither sequence flows nor boundary events,
\* the boundary events, and the sequence flows, each in original order
plainElements(doc, flowElements) ==
    SelectSeq(flowElements, LAMBDA x : /\ doc.nodes[x]["$type"] # SequenceFlowType
                                       /\ doc.nodes[x]["$type"] # BoundaryEventType)

boundaryEvents(doc, flowElements) ==
    SelectSeq(flowElements, LAMBDA x : doc.nodes[x]["$type"] = BoundaryEventType)

sequenceflows(doc, flowElements) ==
    SelectSeq(flowElements, LAMBDA x : doc.nodes[x]["$type"] = SequenceFlowType)

\* mutant: the children are inserted in their original order, edges and
\* boundary events not deferred
insertOrderOriginal(doc, flowElements) == flowElements

\* the order in which insertChildElements inserts the children
insertOrder(doc, flowElements) ==
    plainElements(doc, flowElements) \o boundaryEvents(doc, flowElements)
        \o sequenceflows(doc, flowElements)

RECURSIVE insertShape(_, _, _, _, _, _)
RECURSIVE insertEach(_, _, _, _, _)

\* mutant: the replace flag is not looked at, every element that is no edge
\* is obtained by replaceElement
obtainElementReplacing(h, parent, newElement, replace, oldElement) ==
    IF ~isFlowLikeElement(newElement["$type"])
    THEN replaceElement(h, registryGet(h, oldElement), newElement["$type"])
    ELSE IF "sourceRef" \notin DOMAIN newElement \/ "targetRef" \notin DOMAIN newElement
         THEN Throw(h)
    ELSE connect(h, registryGet(h, idMapGet(h, newElement["sourceRef"].id)),
                    registryGet(h, idMapGet(h, newElement["targetRef"].id)),
                    newElement["$type"])

\* the element insertShape obtains from the host for newElement
\* (replaceElement, createShape or connect)
obtainElement(h, parent, newElement, replace, oldElement) ==
    IF ~isFlowLikeElement(newElement["$type"])
    THEN IF replace
         THEN replaceElement(h, registryGet(h, oldElement), newElement["$type"])
         ELSE createShape(h, newElement["$type"], parent)
    ELSE IF "sourceRef" \notin DOMAIN newElement \/ "targetRef" \notin DOMAIN newElement
         THEN Throw(h)
    ELSE connect(h, registryGet(h, idMapGet(h, newElement["sourceRef"].id)),
                    registryGet(h, idMapGet(h, newElement["targetRef"].id)),
                    newElement["$type"])

\* the expansion of a sub-process that is expanded in the fragment
expandSubProcess(h, element, newElement) ==
    IF /\ newElement["$type"] = SubProcessType
       /\ "di" \in DOMAIN newElement
       /\ newElement["di"].isExpanded
    THEN [h EXCEPT !.registry[element] = ("di" :> [isExpanded |-> TRUE]) @@ @]
    ELSE h

\* the attachment of a boundary event to the element inserted for its host
attachBoundaryEvent(h, element, newElement) ==
    IF newElement["$type"] # BoundaryEventType THEN h
    ELSE IF "attachedToRef" \notin DOMAIN newElement THEN [h EXCEPT !.thrown = TRUE]
    ELSE LET hostElement == registryGet(h, idMapGet(h, newElement["attachedToRef"].id))
         IN IF hostElement = NoElement THEN [h EXCEPT !.thrown = TRUE]
            ELSE LET updated == updateProperties(h, element,
                                    "attachedToRef" :> Ref("diagram", hostElement))
                 IN [updated EXCEPT !.registry[element] = ("host" :> hostElement) @@ @]

insertChildElements(h, parent, doc, newId) ==
    IF "flowElements" \notin DOMAIN doc.nodes[newId]
    THEN [host |-> h, success |-> TRUE]
    ELSE insertEach(h, parent, doc,
                    insertOrder(doc, doc.nodes[newId]["flowElements"]), TRUE)

\* the body shared by the loops of insertChildElements and by the artifact
\* loop of insertShape: insert each element of the list under parent
insertEach(h, parent, doc, elements, success) ==
    IF elements = <<>> \/ h.thrown THEN [host |-> h, success |-> success]
    ELSE LET inserted == insertShape(h, parent, doc, Head(elements), FALSE, NoElement)
         IN insertEach(inserted.host, parent, doc, Tail(elements),
                       success /\ inserted.success)

\* mutant: a child for which the host yields no element is reported by
\* success = false, nothing is thrown
insertShapeReporting(h, parent, doc, newId, replace, oldElement) ==
    LET newElement == doc.nodes[newId]
        obtained == obtainElement(h, parent, newElement, replace, oldElement)
        element == obtained.element
    IN IF ~replace /\ ~obtained.host.thrown /\ element = NoElement
       THEN [host |-> obtained.host, success |-> FALSE, element |-> NoElement]
       ELSE IF obtained.host.thrown \/ element = NoElement
       THEN [host |-> [obtained.host EXCEPT !.thrown = TRUE], success |-> FALSE,
             element |-> NoElement]
       ELSE LET mapped == [obtained.host EXCEPT
                              !.idMap = (newElement["id"] :> element) @@ @]
                attached == attachBoundaryEvent(
                                expandSubProcess(mapped, element, newElement),
                                element, newElement)
            IN IF attached.thrown
               THEN [host |-> attached, success |-> FALSE, element |-> element]
               ELSE LET copied == updateProperties(attached, element,
                                                   getPropertiesToCopy(newElement))
                        children == insertChildElements(copied, element, doc, newId)
                        artifacts == IF "artifacts" \in DOMAIN newElement
                                     THEN insertEach(children.host, element, doc,
                                                     newElement["artifacts"],
                                                     children.success)
                                     ELSE children
                    IN [host |-> artifacts.host, success |-> artifacts.success,
                        element |-> element]

insertShape(h, parent, doc, newId, replace, oldElement) ==
    LET newElement == doc.nodes[newId]
        obtained == obtainElement(h, parent, newElement, replace, oldElement)
        element == obtained.element
    IN IF obtained.host.thrown \/ element = NoElement
       THEN \* element.id of no element: TypeError
            [host |-> [obtained.host EXCEPT !.thrown = TRUE], success |-> FALSE,
             element |-> NoElement]
       ELSE LET mapped == [obtained.host EXCEPT
                              !.idMap = (newElement["id"] :> element) @@ @]
                attached == attachBoundaryEvent(
                                expandSubProcess(mapped, element, newElement),
                                element, newElement)
            IN IF attached.thrown
               THEN [host |-> attached, success |-> FALSE, element |-> element]
               ELSE LET copied == updateProperties(attached, element,
                                                   getPropertiesToCopy(newElement))
                        children == insertChildElements(copied, element, doc, newId)
                        artifacts == IF "artifacts" \in DOMAIN newElement
                                     THEN insertEach(children.host, element, doc,
                                                     newElement["artifacts"],
                                                     children.success)
                                     ELSE children
                    IN [host |-> artifacts.host, success |-> artifacts.success,
                        element |-> element]

----------------------------------------------------------------------------
(* QuantMETransformator: the transformation pass *)

\* Utilities.getCamundaInputOutput: the camunda:InputOutput extension of
\* the element, created with empty parameter lists when it has none
getCamundaInputOutput(h, element) ==
    IF "extensionElements" \in DOMAIN h.registry[element] THEN h
    ELSE [h EXCEPT !.registry[element] =
             ("extensionElements" :> [inputParameters |-> <<>>,
                                      outputParameters |-> <<>>]) @@ @]

\* InputOutputHandler.addQuantMEInputParameters: the attributes of the
\* replaced task become input parameters of the element
addQuantMEInputParameters(h, element, task) ==
    [h EXCEPT !.registry[element]["extensionElements"].inputParameters =
        [key \in DOMAIN task \ {"$type", "id", "$parent"} |-> task[key]]]

\* the host state a call of replaceByFragment starts from: a fresh idMap
hostState ==
    [registry |-> registry, nextId |-> nextId, idMap |-> <<>>,
     hostCalls |-> hostCalls, yields |-> 0, failOp |-> failOp, thrown |-> FALSE]

\* the state of the diagram as a diagramDefinitions object
diagramDefinitions == [rootElements |-> rootElements, nodes |-> registry]

\* the call getMatchingQRM(task) up to its first suspension: with an empty
\* collection it returns undefined, else matchesQRM(QRMs[0], task) suspends
\* on the parse of the detector
BeginGetMatchingQRM ==
    /\ i' = 1
    /\ IF Len(QRMs) >= 1
       THEN /\ qrmArg' = <<QRMs[1]>>
            /\ matched' = <<>>
            /\ pc' = "Matching"
       ELSE /\ qrmArg' = <<>>
            /\ matched' = <<>>
            /\ pc' = "Resolved"

\* the call replaceByFragment(task, parent, replacement) up to its first
\* suspension: it returns false for an undefined replacement, else suspends
\* on the parse of the replacement
BeginReplaceByFragment(tasks, n) ==
    IF tasks[n].qrm = <<>>
    THEN \* replacementTask.qrm.replacement of no template: TypeError
         /\ pc' = "Thrown"
         /\ UNCHANGED result
    ELSE IF "replacement" \notin DOMAIN tasks[n].qrm[1]
    THEN /\ result' = [success |-> FALSE, idMap |-> <<>>, element |-> NoElement]
         /\ pc' = "Spliced"
    ELSE /\ result' = [success |-> TRUE, idMap |-> <<>>, element |-> NoElement]
         /\ pc' = "ParsingFragment"

\* startReplacementProcess from its call to its first suspension
StartReplacementProcess ==
    /\ pc = "Idle"
    /\ LET rootElement == getRootProcess(diagramDefinitions)
           tasks == IF rootElement = NoElement THEN <<>>
                    ELSE getQuantMETasks(registry, rootElement)
       IN IF tasks = <<>>
          THEN /\ pc' = "Returned"
               /\ UNCHANGED <<replacementTasks, k, i, qrmArg, matched, snapshot>>
          ELSE /\ replacementTasks' =
                      [n \in 1..Len(tasks) |->
                          [task |-> tasks[n].task, parent |-> tasks[n].parent,
                           qrm |-> <<>>]]
               /\ k' = 1
               /\ snapshot' = QRMs
               /\ BeginGetMatchingQRM
    /\ UNCHANGED <<QRMs, rootElements, registry, nextId, hostCalls, failOp, result,
                   notifications, layoutCalls, updates>>

\* mutant: getMatchingQRM returns the first template of the collection
returnedQRMFirst(collection, n) ==
    IF 1 <= Len(collection) THEN <<collection[1]>> ELSE <<>>

\* what 'return QRMs[i]' yields for the collection stored at that moment
returnedQRM(collection, n) ==
    IF n <= Len(collection) THEN <<collection[n]>> ELSE <<>>

\* matchesQRM resumes with the parsed detector, and getMatchingQRM goes on
\* until it returns or suspends in the next matchesQRM
ResumeMatchesQRM ==
    /\ pc = "Matching"
    /\ IF matchesQRMThrows(qrmArg[1])
       THEN /\ pc' = "Thrown"
            /\ UNCHANGED <<i, qrmArg, matched>>
       ELSE IF matchesQRM(qrmArg[1], registry[replacementTasks[k].task])
       THEN /\ matched' = returnedQRM(QRMs, i)
            /\ pc' = "Resolved"
            /\ UNCHANGED <<i, qrmArg>>
       ELSE /\ i' = i + 1
            /\ IF i + 1 <= Len(QRMs)
               THEN /\ qrmArg' = <<QRMs[i + 1]>>
                    /\ UNCHANGED <<matched, pc>>
               ELSE /\ matched' = <<>>
                    /\ pc' = "Resolved"
                    /\ UNCHANGED qrmArg
    /\ UNCHANGED <<QRMs, rootElements, registry, nextId, hostCalls, failOp,
                   replacementTasks, k, result, notifications, layoutCalls,
                   updates, snapshot>>

\* mutant: a task without template is passed over
resolveOutcomeSkip(template, n, len) ==
    IF n < len THEN "next" ELSE "splice"

\* how startReplacementProcess goes on once getMatchingQRM has returned
\* for task n of len
resolveOutcome(template, n, len) ==
    IF template = <<>> THEN "abort"
    ELSE IF n < len THEN "next"
    ELSE "splice"

\* startReplacementProcess resumes with the template of task k: it aborts
\* with a notification, resolves the next task or starts to replace
ResumeResolved ==
    /\ pc = "Resolved"
    /\ LET tasks == [replacementTasks EXCEPT ![k].qrm = matched]
       IN /\ replacementTasks' = tasks
          /\ IF resolveOutcome(matched, k, Len(tasks)) = "abort"
             THEN /\ notifications' = Append(notifications, tasks[k].task)
                  /\ pc' = "Aborted"
                  /\ UNCHANGED <<k, i, qrmArg, matched, result>>
             ELSE IF resolveOutcome(matched, k, Len(tasks)) = "next"
             THEN /\ k' = k + 1
                  /\ BeginGetMatchingQRM
                  /\ UNCHANGED <<notifications, result>>
             ELSE /\ k' = 1
                  /\ BeginReplaceByFragment(tasks, 1)
                  /\ UNCHANGED <<i, qrmArg, matched, notifications>>
    /\ UNCHANGED <<QRMs, rootElements, registry, nextId, hostCalls, failOp,
                   layoutCalls, updates, snapshot>>

\* replaceByFragment resumes with the parsed replacement and runs to its end
ResumeReplaceByFragment ==
    /\ pc = "ParsingFragment"
    /\ LET task == replacementTasks[k].task
           replacement == replacementTasks[k].qrm[1]["replacement"]
           replacementProcess == getRootProcess(replacement)
       IN IF getSingleFlowElementThrows(replacement, replacementProcess)
          THEN /\ pc' = "Thrown"
               /\ UNCHANGED <<registry, nextId, hostCalls, result>>
          ELSE LET replacementElement == getSingleFlowElement(replacement, replacementProcess)
               IN IF replacementElement = NoElement
                  THEN /\ result' = [success |-> FALSE, idMap |-> <<>>, element |-> NoElement]
                       /\ pc' = "Spliced"
                       /\ UNCHANGED <<registry, nextId, hostCalls>>
                  ELSE LET inserted == insertShape(hostState, replacementTasks[k].parent,
                                                   replacement, replacementElement, TRUE, task)
                           transferred ==
                               addQuantMEInputParameters(
                                   getCamundaInputOutput(inserted.host, inserted.element),
                                   inserted.element, registry[task])
                           h == IF inserted.host.thrown THEN inserted.host ELSE transferred
                       IN /\ registry' = h.registry
                          /\ nextId' = h.nextId
                          /\ hostCalls' = h.hostCalls
                          /\ result' = [success |-> inserted.success, idMap |-> h.idMap,
                                        element |-> inserted.element]
                          /\ pc' = IF h.thrown THEN "Thrown" ELSE "Spliced"
    /\ UNCHANGED <<QRMs, rootElements, failOp, replacementTasks, k, i, qrmArg, matched,
                   notifications, layoutCalls, updates, snapshot>>

\* mutant: a failed replacement does not end the pass
spliceOutcomeNoAbort(success, n, len) ==
    IF n < len THEN "next" ELSE "layout"

\* mutant: the diagram is laid out after each successful replacement
spliceOutcomeLayoutEach(success, n, len) ==
    IF ~success THEN "abort" ELSE "layout"

\* how startReplacementProcess goes on once replaceByFragment has returned
\* for task n of len
spliceOutcome(success, n, len) ==
    IF ~success THEN "abort"
    ELSE IF n < len THEN "next"
    ELSE "layout"

\* startReplacementProcess resumes with the outcome of replaceByFragment: it
\* aborts, replaces the next task or lays the diagram out
ResumeSpliced ==
    /\ pc = "Spliced"
    /\ IF spliceOutcome(result.success, k, Len(replacementTasks)) = "abort"
       THEN /\ pc' = "Aborted"
            /\ UNCHANGED <<k, result, layoutCalls>>
       ELSE IF spliceOutcome(result.success, k, Len(replacementTasks)) = "next"
       THEN /\ k' = k + 1
            /\ BeginReplaceByFragment(replacementTasks, k + 1)
            /\ UNCHANGED layoutCalls
       ELSE /\ layoutCalls' = layoutCalls + 1
            /\ pc' = "Done"
            /\ UNCHANGED <<k, result>>
    /\ UNCHANGED <<QRMs, rootElements, registry, nextId, hostCalls, failOp,
                   replacementTasks, i, qrmArg, matched, notifications, updates, snapshot>>

\* mutant: the templates are updated in place, so that a template already
\* resolved for a task becomes the first template delivered
QRMsUpdatedInPlace(data) ==
    /\ updates < MaxUpdates
    /\ QRMs' = data
    /\ updates' = updates + 1
    /\ replacementTasks' =
          [n \in 1..Len(replacementTasks) |->
              IF replacementTasks[n].qrm # <<>> /\ Len(data) >= 1
              THEN [replacementTasks[n] EXCEPT !.qrm = <<data[1]>>]
              ELSE replacementTasks[n]]
    /\ UNCHANGED <<rootElements, registry, nextId, hostCalls, failOp, pc,
                   k, i, qrmArg, matched, result, notifications,
                   layoutCalls, snapshot>>

\* the handler of 'QRMs.updated': the stored collection is replaced
QRMsUpdated(data) ==
    /\ updates < MaxUpdates
    /\ QRMs' = data
    /\ updates' = updates + 1
    /\ UNCHANGED <<rootElements, registry, nextId, hostCalls, failOp, pc,
                   replacementTasks, k, i, qrmArg, matched, result, notifications,
                   layoutCalls, snapshot>>

----------------------------------------------------------------------------
(* Specification Spec: one pass over a diagram, with template updates *)

\* an object of the given type and id inside the container parent
Node(type, id, parent) == ("$type" :> type) @@ ("id" :> id) @@ ("$parent" :> parent)

Container(type, id, parent, flowElements) ==
    Node(type, id, parent) @@ ("flowElements" :> flowElements)

\* the root process of a document
Process(id, flowElements) ==
    ("$type" :> ProcessType) @@ ("id" :> id) @@ ("flowElements" :> flowElements)

\* a quantme:QuantumComputationTask with the given algorithm
ComputationTask(id, parent, algorithm) ==
    Node(Type("quantme", "QuantumComputationTask"), id, parent)
        @@ ("algorithm" :> algorithm)

Edge(type, id, parent, doc, source, target) ==
    Node(type, id, parent) @@ ("sourceRef" :> Ref(doc, source))
        @@ ("targetRef" :> Ref(doc, target))

\* the diagrams a pass is started on: without process; without QuantME
\* task; two QuantME tasks joined by a sequence flow; a QuantME task inside a
\* sub-process followed by one in the process
Diagrams ==
    { [rootElements |-> <<1>>,
       nodes |-> <<("$type" :> Type("bpmn", "Collaboration")) @@ ("id" :> 1)>>],
      [rootElements |-> <<1>>,
       nodes |-> <<Process(1, <<2>>), Node(Type("bpmn", "StartEvent"), 2, 1)>>],
      [rootElements |-> <<1>>,
       nodes |-> <<Process(1, <<2, 3, 4>>),
                   ComputationTask(2, 1, <<"a">>),
                   ComputationTask(3, 1, <<"a", "a">>),
                   Edge(SequenceFlowType, 4, 1, "diagram", 2, 3)>>],
      [rootElements |-> <<1>>,
       nodes |-> <<Process(1, <<2, 4>>),
                   Container(SubProcessType, 2, 1, <<3>>),
                   ComputationTask(3, 2, <<"a">>),
                   ComputationTask(4, 1, <<"a", "a">>)>>] }

\* a detector whose process holds the given flow elements
Detector(elements) ==
    [rootElements |-> <<1>>,
     nodes |-> <<Process(1, [n \in 1..Len(elements) |-> n + 1])>> \o elements]

\* a detector for QuantumComputationTasks with the given algorithm value
\* and any provider
AlgorithmDetector(algorithm) ==
    Detector(<<ComputationTask(2, 1, algorithm) @@ ("provider" :> Wildcard)>>)

\* replacement fragment: a single service task
FragmentTask ==
    [rootElements |-> <<1>>,
     nodes |-> <<Process(1, <<2>>),
                 Node(Type("bpmn", "ServiceTask"), 2, 1) @@ ("name" :> <<"a">>)>>]

\* replacement fragment: an expanded sub-process with a sequence flow
\* (listed first) between its two tasks
FragmentSubProcess ==
    [rootElements |-> <<1>>,
     nodes |-> <<Process(1, <<2>>),
                 Container(SubProcessType, 2, 1, <<3, 4, 5>>)
                     @@ ("di" :> [isExpanded |-> TRUE]),
                 Edge(SequenceFlowType, 3, 2, "template", 4, 5),
                 Node(Type("bpmn", "ServiceTask"), 4, 2),
                 Node(Type("bpmn", "ServiceTask"), 5, 2)>>]

\* replacement fragment with two top-level flow elements
FragmentTwoElements ==
    [rootElements |-> <<1>>,
     nodes |-> <<Process(1, <<2, 3>>),
                 Node(Type("bpmn", "ServiceTask"), 2, 1),
                 Node(Type("bpmn", "ServiceTask"), 3, 1)>>]

Template(qrmUrl, detector, replacement) ==
    ("qrmUrl" :> qrmUrl) @@ ("detector" :> detector) @@ ("replacement" :> replacement)

\* the templates of the model: for algorithm 'a'; for any algorithm; for
\* algorithm 'aa' without replacement; for algorithm 'a' with a replacement
\* of two elements; for the list 'a,aa'; with a detector of two tasks
TemplateA == Template("A", AlgorithmDetector(<<"a">>), FragmentTask)
TemplateAny == Template("Any", AlgorithmDetector(Wildcard), FragmentSubProcess)
TemplateNoReplacement ==
    ("qrmUrl" :> "NoReplacement") @@ ("detector" :> AlgorithmDetector(<<"a", "a">>))
TemplateTwoElements ==
    Template("TwoElements", AlgorithmDetector(<<"a">>), FragmentTwoElements)
TemplateList ==
    Template("List", AlgorithmDetector(<<"a", ",", "a", "a">>), FragmentTask)
TemplateTwoTasks ==
    Template("TwoTasks",
             Detector(<<ComputationTask(2, 1, Wildcard) @@ ("provider" :> Wildcard),
                        ComputationTask(3, 1, Wildcard) @@ ("provider" :> Wildcard)>>),
             FragmentTask)

\* the collections the repository delivers
Collections ==
    { <<>>,
      <<TemplateA>>,
      <<TemplateAny>>,
      <<TemplateA, TemplateAny>>,
      <<TemplateList, TemplateAny>>,
      <<TemplateA, TemplateNoReplacement>>,
      <<TemplateTwoElements, TemplateAny>>,
      <<TemplateTwoTasks, TemplateA, TemplateNoReplacement>> }

PureUnused == call = <<>> /\ ret = <<>>

InitPass ==
    /\ nextId = 100
    /\ hostCalls = <<>>
    /\ pc = "Idle"
    /\ replacementTasks = <<>>
    /\ k = 0
    /\ i = 0
    /\ qrmArg = <<>>
    /\ matched = <<>>
    /\ result = [success |-> TRUE, idMap |-> <<>>, element |-> NoElement]
    /\ notifications = <<>>
    /\ layoutCalls = 0
    /\ updates = 0
    /\ snapshot = <<>>

Init ==
    /\ PureUnused
    /\ QRMs \in Collections
    /\ \E diagram \in Diagrams :
          /\ rootElements = diagram.rootElements
          /\ registry = diagram.nodes
    /\ failOp = 0
    /\ InitPass

Next ==
    \/ StartReplacementProcess /\ UNCHANGED pureVars
    \/ ResumeMatchesQRM /\ UNCHANGED pureVars
    \/ ResumeResolved /\ UNCHANGED pureVars
    \/ ResumeReplaceByFragment /\ UNCHANGED pureVars
    \/ ResumeSpliced /\ UNCHANGED pureVars
    \/ \E data \in Collections : QRMsUpdated(data) /\ UNCHANGED pureVars

Spec == Init /\ [][Next]_vars

\* the tasks bpmnReplace.replaceElement has been called on, in call order
replacedTasks ==
    LET calls == SelectSeq(hostCalls, LAMBDA c : c.op = "replaceElement")
    IN [n \in 1..Len(calls) |-> calls[n].on]

\* the ids of the first n discovered tasks, in discovery order
discoveredTasks(n) == [j \in 1..n |-> replacementTasks[j].task]

\* C1: when getMatchingQRM has returned no template for a discovered task,
\* the pass ends Aborted: up to then it has made no call that changes the
\* diagram (the diagram is the one the pass started on, nothing was laid
\* out), and exactly one notification is fired, which names the first task
\* without template; every task before it has a template.
C1_UnresolvedTaskAbortsBeforeAnyMutation ==
    [][(pc = "Resolved" /\ matched = <<>> /\ pc' # pc) =>
          /\ pc' = "Aborted"
          /\ notifications' = <<replacementTasks[k].task>>
          /\ hostCalls' = <<>>
          /\ layoutCalls' = 0
          /\ [rootElements |-> rootElements', nodes |-> registry'] \in Diagrams
          /\ \A j \in 1..(k - 1) : replacementTasks'[j].qrm # <<>>
          /\ replacementTasks'[k].qrm = <<>>]_vars

\* C1 witness: the pass is Aborted on its second task, the first task has
\* its template
C1_Witness ==
    /\ pc = "Aborted"
    /\ k = 2
    /\ replacementTasks[1].qrm # <<>>
    /\ replacementTasks[2].qrm = <<>>
    /\ notifications = <<replacementTasks[2].task>>

\* C2: the tasks are replaced one at a time in discovery order: the tasks
\* replaceElement was called on are a prefix of the discovered tasks, no
\* further than the current task. As soon as replaceByFragment has reported
\* failure the pass becomes Aborted without another call, and an Aborted pass
\* does nothing more: the tasks from the failed one on are still in the
\* diagram and the tasks before it stay replaced.
C2_SplicingInOrderStopsAtFirstFailure ==
    /\ [](/\ Len(replacedTasks) <= k
          /\ Len(replacedTasks) <= Len(replacementTasks)
          /\ replacedTasks = discoveredTasks(Len(replacedTasks))
          /\ (pc = "Aborted" /\ replacementTasks[k].qrm # <<>>) =>
                /\ ~result.success
                /\ replacedTasks = discoveredTasks(k - 1)
                /\ \A j \in 1..Len(replacementTasks) :
                      (replacementTasks[j].task \in DOMAIN registry) <=> j >= k)
    /\ [][/\ (pc = "Spliced" /\ ~result.success /\ pc' # pc) =>
                (pc' = "Aborted" /\ UNCHANGED <<k, registry, hostCalls, result>>)
          /\ pc = "Aborted" =>
                UNCHANGED <<pc, k, registry, hostCalls, result, layoutCalls>>]_vars

\* C2 witness: the pass is Aborted on the failed replacement of its second
\* task, with the first task replaced
C2_Witness ==
    /\ pc = "Aborted"
    /\ k = 2
    /\ replacementTasks[2].qrm # <<>>
    /\ ~result.success
    /\ Len(replacedTasks) = 1

\* C3: the diagram is laid out at most once in a pass, and only when every
\* discovered task has been replaced with success; a pass that ended
\* otherwise has not laid out.
C3_LayoutOnceAfterAllSpliced ==
    /\ layoutCalls <= 1
    /\ layoutCalls = 1 =>
          /\ pc = "Done"
          /\ result.success
          /\ k = Len(replacementTasks)
          /\ replacedTasks = discoveredTasks(Len(replacementTasks))
          /\ \A j \in 1..Len(replacementTasks) :
                replacementTasks[j].task \notin DOMAIN registry
    /\ pc \in {"Aborted", "Thrown", "Returned"} => layoutCalls = 0

\* C3 witness: a pass over two tasks has replaced both and laid out
C3_Witness ==
    /\ pc = "Done"
    /\ layoutCalls = 1
    /\ Len(replacementTasks) = 2
    /\ Len(replacedTasks) = 2

----------------------------------------------------------------------------
(* The pass on a host that refuses one of its operations: of the calls of
   replaceElement, createShape and connect made by one call of
   replaceByFragment, the one with number failOp yields no element. *)

InitHostFailure ==
    /\ PureUnused
    /\ QRMs \in Collections
    /\ \E diagram \in Diagrams :
          /\ rootElements = diagram.rootElements
          /\ registry = diagram.nodes
    /\ failOp \in 1..MaxFailOp
    /\ InitPass

NextHostFailure ==
    \/ StartReplacementProcess /\ UNCHANGED pureVars
    \/ ResumeMatchesQRM /\ UNCHANGED pureVars
    \/ ResumeResolved /\ UNCHANGED pureVars
    \/ ResumeReplaceByFragment /\ UNCHANGED pureVars
    \/ ResumeSpliced /\ UNCHANGED pureVars

SpecHostFailure == InitHostFailure /\ [][NextHostFailure]_vars

\* the calls of replaceElement, createShape and connect that yielded no element
refusedCalls ==
    {n \in 1..Len(hostCalls) :
        /\ hostCalls[n].op \in {"replaceElement", "createShape", "connect"}
        /\ hostCalls[n].element = NoElement}

\* C19: once a host operation of a splice has yielded no element, the splice
\* call has returned success = false without throwing, and the pass goes on
\* to Aborted: it is never in the state of a thrown exception.
C19_HostFailureIsReportedAsFalse ==
    refusedCalls # {} =>
        /\ pc \in {"Spliced", "Aborted"}
        /\ ~result.success

\* the replacement of the template resolved for task k is undefined, or its
\* process does not hold exactly one top-level flow element
unusableFragment ==
    /\ k >= 1
    /\ replacementTasks[k].qrm # <<>>
    /\ \/ "replacement" \notin DOMAIN replacementTasks[k].qrm[1]
       \/ LET replacement == replacementTasks[k].qrm[1]["replacement"]
              process == getRootProcess(replacement)
          IN /\ process # NoElement
             /\ "flowElements" \in DOMAIN replacement.nodes[process]
             /\ Len(replacement.nodes[process]["flowElements"]) # 1

C26_InsertShapeNeverReportsFailure ==
    /\ (pc = "Spliced" /\ result.element # NoElement) => result.success
    /\ pc = "Spliced" => (~result.success <=> unusableFragment)
    /\ (pc = "Aborted" /\ k >= 1 /\ replacementTasks[k].qrm # <<>>) => unusableFragment

\* C26 witness: the first task has been replaced and the pass has aborted at
\* the second, whose template has no usable replacement
C26_Witness ==
    /\ pc = "Aborted"
    /\ k = 2
    /\ unusableFragment
    /\ hostCalls # <<>>
    /\ refusedCalls = {}

\* C27: the template recorded for a task when it was resolved stays the
\* template of that task whatever happens to the stored collection, and the
\* splice of the task inserts the top-level element of the replacement of
\* that template: its type and its properties.
C27_SpliceUsesTheResolvedTemplate ==
    [][/\ \A n \in 1..Len(replacementTasks) :
             replacementTasks[n].qrm # <<>> =>
                /\ Len(replacementTasks') = Len(replacementTasks)
                /\ replacementTasks'[n].qrm = replacementTasks[n].qrm
       /\ (pc = "ParsingFragment" /\ hostCalls' # hostCalls) =>
             LET fragment == replacementTasks[k].qrm[1]["replacement"]
                 top == fragment.nodes[getSingleFlowElement(fragment,
                                                            getRootProcess(fragment))]
                 new == hostCalls'[Len(hostCalls) + 1].element
             IN /\ new \in DOMAIN registry'
                /\ registry'[new]["$type"] = top["$type"]
                /\ \A key \in DOMAIN getPropertiesToCopy(top) :
                      /\ key \in DOMAIN registry'[new]
                      /\ registry'[new][key] = top[key]]_vars

\* C27 witness: the second task has been replaced by the service task of the
\* template resolved for it, which the collection stored since then does not
\* hold and under which the task would get a sub-process
C27_Witness ==
    /\ pc = "Spliced"
    /\ k = 2
    /\ result.success
    /\ replacementTasks[2].qrm = <<TemplateList>>
    /\ QRMs = <<TemplateAny>>
    /\ registry[result.element]["$type"] = Type("bpmn", "ServiceTask")

\* C4: every lookup of the pass reads the collection that was stored when
\* Resolving began: the template matchesQRM is given is the template of that
\* collection at the current index, and a template getMatchingQRM returns is
\* a template of that collection.
C4_LookupsReadCollectionOfPassStart ==
    /\ pc = "Matching" =>
          /\ i <= Len(snapshot)
          /\ qrmArg = <<snapshot[i]>>
    /\ (pc = "Resolved" /\ matched # <<>>) =>
          \E j \in 1..Len(snapshot) : matched = <<snapshot[j]>>

----------------------------------------------------------------------------
(* Specification SpecResolve: the lookups of a pass over every bounded
   collection, with no update of the collection under way *)

\* a template whose detector holds no process
TemplateNoProcess ==
    Template("NoProcess",
             [rootElements |-> <<1>>,
              nodes |-> <<("$type" :> Type("bpmn", "Collaboration")) @@ ("id" :> 1)>>],
             FragmentTask)

ResolveTemplates ==
    {TemplateA, TemplateAny, TemplateList, TemplateNoReplacement, TemplateTwoTasks,
     TemplateNoProcess}

InitResolve ==
    /\ PureUnused
    /\ \E len \in 0..MaxQRMs : QRMs \in [1..len -> ResolveTemplates]
    /\ \E diagram \in Diagrams :
          /\ rootElements = diagram.rootElements
          /\ registry = diagram.nodes
    /\ failOp = 0
    /\ InitPass

NextResolve ==
    \/ StartReplacementProcess /\ UNCHANGED pureVars
    \/ ResumeMatchesQRM /\ UNCHANGED pureVars
    \/ ResumeResolved /\ UNCHANGED pureVars

SpecResolve == InitResolve /\ [][NextResolve]_vars

\* the indices of the templates of the stored collection that match task
\* k; a template whose detector cannot be read matches nothing
matchingIndices ==
    {j \in 1..Len(QRMs) :
        /\ ~matchesQRMThrows(QRMs[j])
        /\ matchesQRM(QRMs[j], registry[replacementTasks[k].task])}

\* C5: with the collection unchanged during the call, getMatchingQRM returns
\* the template with the lowest index whose detector matches the task, and
\* none exactly when no template of the collection matches; a later template
\* that also matches is not returned.
C5_FirstMatchingTemplateIsReturned ==
    pc = "Resolved" =>
        /\ matched = <<>> <=> matchingIndices = {}
        /\ matched # <<>> =>
              \E j \in matchingIndices :
                 /\ matched = <<QRMs[j]>>
                 /\ \A l \in matchingIndices : j <= l
                 /\ i = j

\* C5 witness: getMatchingQRM has returned the second template, which is the
\* first that matches; the third matches too and is another template
C5_Witness ==
    /\ pc = "Resolved"
    /\ matched # <<>>
    /\ matchingIndices = {2, 3}
    /\ matched = <<QRMs[2]>>
    /\ QRMs[3] # QRMs[2]

\* the detector of the template is malformed: it has no root process, or
\* not exactly one top-level flow node, or its single node is no QuantME task
malformedDetector(qrm) ==
    LET detector == qrm["detector"]
        rootProcess == getRootProcess(detector)
    IN \/ rootProcess = NoElement
       \/ "flowElements" \notin DOMAIN detector.nodes[rootProcess]
       \/ Len(detector.nodes[rootProcess]["flowElements"]) # 1
       \/ ~startsWith(detector.nodes[detector.nodes[rootProcess]["flowElements"][1]]["$type"],
                      "quantme")

\* the indices of the well-formed templates of the stored collection that
\* match task k
wellFormedMatchingIndices ==
    {j \in 1..Len(QRMs) :
        /\ ~malformedDetector(QRMs[j])
        /\ matchesQRM(QRMs[j], registry[replacementTasks[k].task])}

\* C17: a template with a malformed detector is passed over: when the lookup
\* for a task over a collection with such a template has ended, it has not
\* thrown, and it has returned the first well-formed template that matches
\* (none when there is no such template).
C17_MalformedDetectorIsPassedOver ==
    (/\ pc \in {"Resolved", "Thrown"}
     /\ \E j \in 1..Len(QRMs) : malformedDetector(QRMs[j])) =>
        /\ pc = "Resolved"
        /\ matched = IF wellFormedMatchingIndices = {} THEN <<>>
                     ELSE <<QRMs[CHOOSE j \in wellFormedMatchingIndices :
                                    \A l \in wellFormedMatchingIndices : j <= l]>>

----------------------------------------------------------------------------
(* Specification SpecSplice: one pass over a diagram with a single task,
   for every bounded replacement fragment *)

\* what an element inside the sub-process of a fragment can be
ElementKinds == {"task", "boundaryEvent", "sequenceFlow", "annotation", "association"}

\* the id in the fragment of its top-level element, and of its n-th inner
\* element
TopId == 2
InnerId(n) == TopId + n

\* object with the reference key set to the element id of the fragment; the
\* parser leaves a reference it cannot resolve (id NoElement) unset
WithRef(object, key, id) ==
    IF id = NoElement THEN object ELSE (key :> Ref("template", id)) @@ object

\* the n-th inner element of a fragment
InnerElement(n, kind, source, target) ==
    CASE kind = "task" -> Node(Type("bpmn", "ServiceTask"), InnerId(n), TopId)
      [] kind = "annotation" -> Node(Type("bpmn", "TextAnnotation"), InnerId(n), TopId)
      [] kind = "boundaryEvent" ->
            WithRef(Node(BoundaryEventType, InnerId(n), TopId), "attachedToRef", source)
      [] kind = "sequenceFlow" ->
            WithRef(WithRef(Node(SequenceFlowType, InnerId(n), TopId),
                            "sourceRef", source), "targetRef", target)
      [] kind = "association" ->
            WithRef(WithRef(Node(AssociationType, InnerId(n), TopId),
                            "sourceRef", source), "targetRef", target)

\* the ids of the inner elements 1..n whose kind is in kinds, in order
InnerIds(n, kind, kinds) ==
    LET ids == [e \in 1..n |-> InnerId(e)]
    IN SelectSeq(ids, LAMBDA x : kind[x - TopId] \in kinds)

\* object with the list under key, which the parser leaves unset when empty
WithList(object, key, list) ==
    IF list = <<>> THEN object ELSE (key :> list) @@ object

\* a fragment: a process with one sub-process that holds n inner elements,
\* the annotations and associations as its artifacts, the others as its
\* flowElements
Fragment(n, kind, source, target) ==
    [rootElements |-> <<1>>,
     nodes |-> <<Process(1, <<TopId>>),
                 WithList(WithList(Node(SubProcessType, TopId, 1), "flowElements",
                                   InnerIds(n, kind, {"task", "boundaryEvent", "sequenceFlow"})),
                          "artifacts", InnerIds(n, kind, {"annotation", "association"}))>>
               \o [e \in 1..n |-> InnerElement(e, kind[e], source[e], target[e])]]

\* the references are set only where the kind of the element has them
RefsWellFormed(n, kind, source, target) ==
    \A e \in 1..n :
       /\ kind[e] \in {"task", "annotation"} => source[e] = NoElement
       /\ kind[e] \in {"task", "annotation", "boundaryEvent"} => target[e] = NoElement

\* the diagram of SpecSplice: a process with one QuantME task
SpliceDiagram ==
    [rootElements |-> <<1>>,
     nodes |-> <<Process(1, <<2>>), ComputationTask(2, 1, <<"a">>)>>]

InitSplice ==
    /\ PureUnused
    /\ \E n \in 0..MaxElements :
          \E kind \in [1..n -> ElementKinds] :
             \E source, target \in [1..n -> {NoElement} \cup {InnerId(e) : e \in 1..n}] :
                /\ RefsWellFormed(n, kind, source, target) = TRUE
                /\ QRMs = <<Template("Fragment", AlgorithmDetector(Wildcard),
                                      Fragment(n, kind, source, target))>>
    /\ rootElements = SpliceDiagram.rootElements
    /\ registry = SpliceDiagram.nodes
    /\ failOp = 0
    /\ InitPass

NextSplice ==
    \/ StartReplacementProcess /\ UNCHANGED pureVars
    \/ ResumeMatchesQRM /\ UNCHANGED pureVars
    \/ ResumeResolved /\ UNCHANGED pureVars
    \/ ResumeReplaceByFragment /\ UNCHANGED pureVars
    \/ ResumeSpliced /\ UNCHANGED pureVars

SpecSplice == InitSplice /\ [][NextSplice]_vars

\* the fragment the current task is replaced by, and its top-level element
spliceFragment == replacementTasks[k].qrm[1]["replacement"]
spliceTop == spliceFragment.nodes[TopId]

\* the children of the top-level element of the fragment
spliceChildren ==
    IF "flowElements" \in DOMAIN spliceTop THEN spliceTop["flowElements"] ELSE <<>>

\* replaceByFragment has ended, by return or by exception
spliceEnded == pc \in {"Spliced", "Thrown", "Done", "Aborted"}

\* the children of the fragment of the given type
childrenOfType(type) ==
    {c \in DOMAIN spliceFragment.nodes :
        /\ \E n \in 1..Len(spliceChildren) : spliceChildren[n] = c
        /\ spliceFragment.nodes[c]["$type"] = type}

\* C7: after the splice of a fragment whose top-level element has a plain
\* child and an edge child that refers to it by its id in the fragment, the
\* edge in the diagram has the new id of the inserted plain child as that
\* end point, in the final state of the splice.
C7_EdgeEndsAtNewIdOfInsertedChild ==
    (pc = "Spliced" /\ result.success) =>
        \A edge \in childrenOfType(SequenceFlowType) :
           \A key \in {"sourceRef", "targetRef"} \cap DOMAIN spliceFragment.nodes[edge] :
              LET end == spliceFragment.nodes[edge][key].id
              IN end \in childrenOfType(Type("bpmn", "ServiceTask")) =>
                    /\ edge \in DOMAIN result.idMap
                    /\ end \in DOMAIN result.idMap
                    /\ registry[result.idMap[edge]][key]
                          = Ref("diagram", result.idMap[end])

\* the positions in the insertion order of the children at which a sequence
\* flow refers to an element that has no entry in idMap yet: neither the
\* top-level element nor a child inserted before
unresolvedEdgePositions ==
    LET order == insertOrder(spliceFragment, spliceChildren)
    IN {n \in 1..Len(order) :
           LET child == spliceFragment.nodes[order[n]]
           IN /\ child["$type"] = SequenceFlowType
              /\ {"sourceRef", "targetRef"} \subseteq DOMAIN child
              /\ \E key \in {"sourceRef", "targetRef"} :
                    child[key].id \notin {TopId} \cup {order[m] : m \in 1..(n - 1)}}

\* C8: when a fragment (here: without boundary events) has an edge child
\* with an end point that has no entry in idMap when the edge is processed,
\* replaceByFragment returns false without throwing, and every other child
\* of the container has been inserted.
C8_UnresolvedEdgeFailsWithoutThrowing ==
    (/\ spliceEnded
     /\ childrenOfType(BoundaryEventType) = {}
     /\ unresolvedEdgePositions # {}) =>
        /\ pc # "Thrown"
        /\ ~result.success
        /\ LET order == insertOrder(spliceFragment, spliceChildren)
           IN \A n \in (1..Len(order)) \ unresolvedEdgePositions :
                 order[n] \in DOMAIN result.idMap

\* C9: after a splice that returned true, every sourceRef, targetRef and
\* attachedToRef of every element the splice inserted refers to an element
\* of the diagram that exists; none refers to an element of the fragment.
C9_InsertedReferencesResolveInDiagram ==
    (pc = "Spliced" /\ result.success) =>
        \A e \in DOMAIN result.idMap :
           \A key \in {"sourceRef", "targetRef", "attachedToRef"}
                        \cap DOMAIN registry[result.idMap[e]] :
              /\ registry[result.idMap[e]][key].doc = "diagram"
              /\ registry[result.idMap[e]][key].id \in DOMAIN registry

\* the bucket of a child of the top-level element: 1 for a plain child, 2
\* for a boundary event, 3 for a sequence flow
bucketOf(c) ==
    IF spliceFragment.nodes[c]["$type"] = SequenceFlowType THEN 3
    ELSE IF spliceFragment.nodes[c]["$type"] = BoundaryEventType THEN 2
    ELSE 1

\* the number of the host call that created the element inserted for child c
positionOf(c) ==
    CHOOSE n \in 1..Len(hostCalls) :
        /\ hostCalls[n].op \in {"createShape", "connect"}
        /\ hostCalls[n].element = result.idMap[c]

\* every boundary event among the children is attached to a plain sibling,
\* every sequence flow among them starts and ends at a plain or boundary
\* sibling, and no artifact is an association
siblingsReferenced ==
    /\ \A b \in childrenOfType(BoundaryEventType) :
          /\ "attachedToRef" \in DOMAIN spliceFragment.nodes[b]
          /\ \E n \in 1..Len(spliceChildren) :
                /\ spliceChildren[n] = spliceFragment.nodes[b]["attachedToRef"].id
                /\ bucketOf(spliceChildren[n]) = 1
    /\ \A e \in childrenOfType(SequenceFlowType) :
          /\ {"sourceRef", "targetRef"} \subseteq DOMAIN spliceFragment.nodes[e]
          /\ \A key \in {"sourceRef", "targetRef"} :
                \E n \in 1..Len(spliceChildren) :
                   /\ spliceChildren[n] = spliceFragment.nodes[e][key].id
                   /\ bucketOf(spliceChildren[n]) \in {1, 2}
    /\ "artifacts" \in DOMAIN spliceTop =>
          \A n \in 1..Len(spliceTop["artifacts"]) :
             spliceFragment.nodes[spliceTop["artifacts"][n]]["$type"] # AssociationType

\* C21: the children of a container are inserted plain children first, then
\* boundary events, then sequence flows, each bucket in the order of the
\* list; hence, whatever the order of the list, a boundary event finds the
\* element inserted for its host and a sequence flow finds the elements
\* inserted for the siblings it refers to: the splice of a fragment whose
\* children refer to siblings only does not fail for a missing reference.
C21_ChildrenInsertedByBucket ==
    /\ (pc = "Spliced" /\ result.success) =>
          \A m, n \in 1..Len(spliceChildren) :
             LET x == spliceChildren[m]
                 y == spliceChildren[n]
             IN (\/ bucketOf(x) < bucketOf(y)
                 \/ bucketOf(x) = bucketOf(y) /\ m < n) =>
                    /\ {x, y} \subseteq DOMAIN result.idMap
                    /\ positionOf(x) < positionOf(y)
    /\ (spliceEnded /\ siblingsReferenced) => pc # "Thrown"

\* C21 witness: a fragment that lists a sequence flow before the task it
\* starts and ends at has been spliced
C21_Witness ==
    /\ pc = "Spliced"
    /\ result.success
    /\ Len(spliceChildren) = 2
    /\ bucketOf(spliceChildren[1]) = 3
    /\ bucketOf(spliceChildren[2]) = 1
    /\ spliceFragment.nodes[spliceChildren[1]]["sourceRef"].id = spliceChildren[2]
    /\ positionOf(spliceChildren[2]) < positionOf(spliceChildren[1])

\* C22: in one splice replaceElement is called exactly once, as the first
\* host call, on the task and with the type of the top-level element of the
\* fragment; every other element that is no edge is created by createShape
\* as a new element under the element inserted for its parent in the
\* fragment; no element of the diagram but the task is removed.
C22_OnlyTheTaskIsReplaced ==
    [][(pc = "ParsingFragment" /\ hostCalls' # hostCalls) =>
          LET first == Len(hostCalls) + 1
              task == replacementTasks[k].task
              fragment == replacementTasks[k].qrm[1]["replacement"]
              top == getSingleFlowElement(fragment, getRootProcess(fragment))
          IN /\ hostCalls'[first].op = "replaceElement"
             /\ hostCalls'[first].on = task
             /\ hostCalls'[first].element \in DOMAIN registry' \ DOMAIN registry
             /\ registry'[hostCalls'[first].element]["$type"] = fragment.nodes[top]["$type"]
             /\ \A n \in (first + 1)..Len(hostCalls') :
                   /\ hostCalls'[n].op # "replaceElement"
                   /\ hostCalls'[n].op = "createShape" =>
                         /\ hostCalls'[n].element \notin DOMAIN registry
                         /\ hostCalls'[n].on \in DOMAIN registry' \ DOMAIN registry
             /\ DOMAIN registry \ {task} \subseteq DOMAIN registry'
             /\ (pc' = "Spliced" /\ result'.success) =>
                   \A c \in DOMAIN result'.idMap \ {top} :
                      ~isFlowLikeElement(fragment.nodes[c]["$type"]) =>
                         \E n \in (first + 1)..Len(hostCalls') :
                            /\ hostCalls'[n].op = "createShape"
                            /\ hostCalls'[n].element = result'.idMap[c]
                            /\ hostCalls'[n].on
                                  = result'.idMap[fragment.nodes[c]["$parent"]]]_vars

\* C22 witness: a fragment whose top-level element holds a task and an
\* annotation has been spliced
C22_Witness ==
    /\ pc = "Spliced"
    /\ result.success
    /\ Len(SelectSeq(hostCalls, LAMBDA c : c.op = "replaceElement")) = 1
    /\ childrenOfType(Type("bpmn", "ServiceTask")) # {}
    /\ \E c \in DOMAIN result.idMap :
          spliceFragment.nodes[c]["$type"] = Type("bpmn", "TextAnnotation")

\* C23: after a splice, the attachedToRef of the element inserted for a
\* boundary event of the fragment is the element idMap gives for the
\* attachedToRef of the boundary event, also after the properties of the
\* fragment element have been copied.
C23_BoundaryEventStaysAttachedToInsertedHost ==
    (pc = "Spliced" /\ result.success) =>
        \A b \in childrenOfType(BoundaryEventType) :
           (b \in DOMAIN result.idMap /\ "attachedToRef" \in DOMAIN spliceFragment.nodes[b]) =>
              /\ spliceFragment.nodes[b]["attachedToRef"].id \in DOMAIN result.idMap
              /\ registry[result.idMap[b]]["attachedToRef"]
                    = Ref("diagram", result.idMap[spliceFragment.nodes[b]["attachedToRef"].id])

----------------------------------------------------------------------------
(* Specification SpecMatch: matchesProperty on every bounded input *)

OptStr == Str \cup {Undefined}

InitMatch ==
    /\ PassUnused
    /\ call \in [fn : {"matchesProperty"}, detectorProperty : OptStr,
                 taskProperty : OptStr, required : BOOLEAN]
    /\ ret = <<>>

CallMatchesProperty ==
    /\ call.fn = "matchesProperty"
    /\ ret = <<>>
    /\ ret' = <<matchesProperty(call.detectorProperty, call.taskProperty, call.required)>>
    /\ UNCHANGED call

NextMatch == CallMatchesProperty /\ UNCHANGED passVars

SpecMatch == InitMatch /\ [][NextMatch]_vars

\* C10: matchesProperty returns false whenever detectorValue is undefined,
\* for every candidateValue (defined or undefined) and both values of required.
C10_UndefinedDetectorNeverMatches ==
    (ret # <<>> /\ call.detectorProperty = Undefined) => ret = <<FALSE>>

\* C10 witness: the call has returned for an undefined detector value, an
\* undefined candidate value and an optional attribute (the case in which a
\* defined detector value would match)
C10_Witness ==
    /\ ret # <<>>
    /\ call.detectorProperty = Undefined
    /\ call.taskProperty = Undefined
    /\ call.required = FALSE

\* C11: matchesProperty returns true whenever detectorValue is exactly the
\* wildcard '*', for every candidateValue (undefined included) and both
\* values of required.
C11_WildcardDetectorAlwaysMatches ==
    (ret # <<>> /\ call.detectorProperty = Wildcard) => ret = <<TRUE>>

\* C11 witness: the call has returned true for the wildcard, an undefined
\* candidate value and a required attribute
C11_Witness ==
    /\ ret = <<TRUE>>
    /\ call.detectorProperty = Wildcard
    /\ call.taskProperty = Undefined
    /\ call.required = TRUE

\* C12: for a detectorValue that is defined and not the wildcard,
\* matchesProperty(detectorValue, undefined, required) is the negation of
\* required.
C12_AbsentCandidateMatchesIffOptional ==
    (/\ ret # <<>>
     /\ call.detectorProperty # Undefined
     /\ call.detectorProperty # Wildcard
     /\ call.taskProperty = Undefined) => ret = <<~call.required>>

\* C12 witness: the call has returned true for a list as detector value, an
\* undefined candidate value and an optional attribute
C12_Witness ==
    /\ ret = <<TRUE>>
    /\ call.detectorProperty = <<"a", ",", "a">>
    /\ call.taskProperty = Undefined
    /\ call.required = FALSE

\* s without its leading and trailing blanks, stated by positions: the part
\* from the first to the last character that is not a blank
Stripped(s) ==
    LET solid == {p \in 1..Len(s) : s[p] # " "}
    IN IF solid = {} THEN <<>>
       ELSE SubSeq(s, CHOOSE p \in solid : \A q \in solid : p <= q,
                      CHOOSE p \in solid : \A q \in solid : q <= p)

\* the entries of the comma-separated list s, stated by positions: the
\* longest parts without comma, each bounded by a comma or by an end of s
Entries(s) ==
    {SubSeq(s, a, b) : <<a, b>> \in
        {ab \in (1..(Len(s) + 1)) \X (0..Len(s)) :
            /\ ab[2] >= ab[1] - 1
            /\ \A p \in ab[1]..ab[2] : s[p] # ","
            /\ ab[1] = 1 \/ s[ab[1] - 1] = ","
            /\ ab[2] = Len(s) \/ s[ab[2] + 1] = ","}}

\* C13: for a defined detectorValue that is not the wildcard and a defined
\* candidateValue, the result does not depend on required: when detectorValue
\* contains a comma it is true exactly when the trimmed candidateValue equals
\* the trimmed value of one of the comma-separated entries, otherwise exactly
\* when the trimmed detectorValue equals the trimmed candidateValue.
C13_DefinedValuesMatchByTrimmedEquality ==
    (/\ ret # <<>>
     /\ call.detectorProperty # Undefined
     /\ call.detectorProperty # Wildcard
     /\ call.taskProperty # Undefined) =>
        ret = << IF \E p \in 1..Len(call.detectorProperty) : call.detectorProperty[p] = ","
                 THEN \E entry \in Entries(call.detectorProperty) :
                         Stripped(entry) = Stripped(call.taskProperty)
                 ELSE Stripped(call.detectorProperty) = Stripped(call.taskProperty) >>

\* C13 witness: the call has returned true for a list whose matching entry
\* has a blank in front, a candidate value with a blank behind and a required
\* attribute
C13_Witness ==
    /\ ret = <<TRUE>>
    /\ call.detectorProperty = <<",", " ", "a">>
    /\ call.taskProperty = <<"a", " ">>
    /\ call.required = TRUE

----------------------------------------------------------------------------
(* Specification SpecAlternative: matchAlternativeProperties on every
   bounded pair of property lists *)

\* the values a property of a group has: undefined, the wildcard and two
\* distinct plain values
AlternativeValues == {Undefined, Wildcard, <<"a">>, <<"a", "a">>}

InitAlternative ==
    /\ PassUnused
    /\ \E m, n \in 0..MaxAlternatives :
          \E detectorProperties \in [1..m -> AlternativeValues] :
             \E taskProperties \in [1..n -> AlternativeValues] :
                call = [fn |-> "matchAlternativeProperties",
                        detectorProperties |-> detectorProperties,
                        taskProperties |-> taskProperties]
    /\ ret = <<>>

CallMatchAlternativeProperties ==
    /\ call.fn = "matchAlternativeProperties"
    /\ ret = <<>>
    /\ ret' = <<matchAlternativeProperties(call.detectorProperties, call.taskProperties)>>
    /\ UNCHANGED call

NextAlternative == CallMatchAlternativeProperties /\ UNCHANGED passVars

SpecAlternative == InitAlternative /\ [][NextAlternative]_vars

\* the positions of taskProperties that are defined
definedPositions ==
    {n \in 1..Len(call.taskProperties) : call.taskProperties[n] # Undefined}

\* C14: matchAlternativeProperties returns false whenever the two lists
\* differ in length, whenever no position of candidateValues is defined and
\* whenever two or more are defined, whatever the detector values are
\* (wildcards included).
C14_NotExactlyOneAlternativeNeverMatches ==
    (/\ ret # <<>>
     /\ \/ Len(call.detectorProperties) # Len(call.taskProperties)
        \/ Cardinality(definedPositions) # 1) => ret = <<FALSE>>

\* C14 witness: the call has returned for two defined candidate values
\* against two wildcards
C14_Witness ==
    /\ ret # <<>>
    /\ call.detectorProperties = <<Wildcard, Wildcard>>
    /\ call.taskProperties = <<(<<"a">>), (<<"a">>)>>

\* C15: for lists of equal length with exactly one defined position i of
\* candidateValues, the result is matchesProperty(detectorValues[i],
\* candidateValues[i], true); the other detector values have no influence.
C15_SingleAlternativeIsMatchedAtItsPosition ==
    (/\ ret # <<>>
     /\ Len(call.detectorProperties) = Len(call.taskProperties)
     /\ Cardinality(definedPositions) = 1) =>
        \A n \in definedPositions :
           ret = <<matchesProperty(call.detectorProperties[n], call.taskProperties[n], TRUE)>>

\* C15 witness: the call has returned true for a candidate value at the
\* second position that matches the second detector value and not the first
C15_Witness ==
    /\ ret = <<TRUE>>
    /\ call.detectorProperties = <<(<<"a", "a">>), (<<"a">>)>>
    /\ call.taskProperties = <<Undefined, (<<"a">>)>>

----------------------------------------------------------------------------
(* Specification SpecDetector: taskMatchesDetector on detector elements and
   tasks of every kind *)

\* the kinds with a rule set in taskMatchesDetector
SupportedKinds ==
    {Type("quantme", "QuantumComputationTask"), Type("quantme", "QuantumCircuitLoadingTask"),
     Type("quantme", "DataPreparationTask"), Type("quantme", "OracleExpansionTask"),
     Type("quantme", "QuantumCircuitExecutionTask"),
     Type("quantme", "ReadoutErrorMitigationTask")}

\* the kinds of SpecDetector: the supported ones, a QuantME kind without
\* rule set and a kind that is not a QuantME kind
Kinds == SupportedKinds \cup {Type("quantme", "QuantumHardwareSelectionSubprocess"),
                              Type("bpmn", "ServiceTask")}

\* the attributes an element of the kind is given in SpecDetector
AttributesOf(kind) ==
    CASE kind = Type("quantme", "QuantumComputationTask") -> {"algorithm", "provider"}
      [] kind = Type("quantme", "QuantumCircuitLoadingTask") -> {"quantumCircuit", "url"}
      [] kind = Type("quantme", "DataPreparationTask") -> {"encodingSchema", "programmingLanguage"}
      [] kind = Type("quantme", "OracleExpansionTask") ->
            {"oracleId", "programmingLanguage", "oracleCircuit", "oracleURL"}
      [] kind = Type("quantme", "QuantumCircuitExecutionTask") ->
            {"provider", "qpu", "shots", "programmingLanguage"}
      [] kind = Type("quantme", "ReadoutErrorMitigationTask") ->
            {"unfoldingTechnique", "qpu", "maxAge"}
      [] OTHER -> {}

\* the element of the kind that owns the attributes whose value is defined
ElementOf(kind, values) ==
    [key \in {"$type"} \cup {a \in DOMAIN values : values[a] # Undefined} |->
        IF key = "$type" THEN kind ELSE values[key]]

DetectorValues == {Undefined, Wildcard, <<"a">>}
TaskValues == {Undefined, <<"a">>, <<"a", "a">>}

InitDetector ==
    /\ PassUnused
    /\ \E detectorKind, taskKind \in Kinds :
          \E detectorValues \in [AttributesOf(detectorKind) -> DetectorValues] :
             \E taskValues \in [AttributesOf(taskKind) -> TaskValues] :
                call = [fn |-> "taskMatchesDetector",
                        detectorElement |-> ElementOf(detectorKind, detectorValues),
                        task |-> ElementOf(taskKind, taskValues)]
    /\ ret = <<>>

CallTaskMatchesDetector ==
    /\ call.fn = "taskMatchesDetector"
    /\ ret = <<>>
    /\ ret' = <<taskMatchesDetector(call.detectorElement, call.task)>>
    /\ UNCHANGED call

NextDetector == CallTaskMatchesDetector /\ UNCHANGED passVars

SpecDetector == InitDetector /\ [][NextDetector]_vars

\* the rule set of each kind as a table: required attributes, optional
\* attributes and the group of alternatives
RequiredOf(kind) ==
    CASE kind = Type("quantme", "QuantumComputationTask") -> {"algorithm"}
      [] kind = Type("quantme", "QuantumCircuitLoadingTask") -> {}
      [] kind = Type("quantme", "DataPreparationTask") -> {"encodingSchema", "programmingLanguage"}
      [] kind = Type("quantme", "OracleExpansionTask") -> {"oracleId", "programmingLanguage"}
      [] kind = Type("quantme", "QuantumCircuitExecutionTask") -> {"programmingLanguage"}
      [] kind = Type("quantme", "ReadoutErrorMitigationTask") -> {"unfoldingTechnique", "qpu"}

OptionalOf(kind) ==
    CASE kind = Type("quantme", "QuantumComputationTask") -> {"provider"}
      [] kind = Type("quantme", "QuantumCircuitExecutionTask") -> {"provider", "qpu", "shots"}
      [] kind = Type("quantme", "ReadoutErrorMitigationTask") -> {"maxAge"}
      [] OTHER -> {}

GroupOf(kind) ==
    CASE kind = Type("quantme", "QuantumCircuitLoadingTask") -> <<"quantumCircuit", "url">>
      [] kind = Type("quantme", "OracleExpansionTask") -> <<"oracleCircuit", "oracleURL">>
      [] OTHER -> <<>>

\* the conjunction of the checks of the kind of the task
kindChecksHold ==
    LET kind == call.task["$type"]
        group == GroupOf(kind)
    IN /\ \A a \in RequiredOf(kind) :
             matchesProperty(Get(call.detectorElement, a), Get(call.task, a), TRUE)
       /\ \A a \in OptionalOf(kind) :
             matchesProperty(Get(call.detectorElement, a), Get(call.task, a), FALSE)
       /\ group # <<>> =>
             matchAlternativeProperties(
                 [n \in 1..Len(group) |-> Get(call.detectorElement, group[n])],
                 [n \in 1..Len(group) |-> Get(call.task, group[n])])

\* C16: taskMatchesDetector returns true exactly when detector and task have
\* the same type, the type is one of the six supported kinds and the checks
\* of that kind all hold; unequal types and kinds without rule set never
\* match.
C16_DetectorMatchIsKindRuleConjunction ==
    ret # <<>> =>
        ret = << /\ call.detectorElement["$type"] = call.task["$type"]
                 /\ call.task["$type"] \in SupportedKinds
                 /\ kindChecksHold >>

\* C16 witness: an OracleExpansionTask that gives only its oracleURL has
\* been matched
C16_Witness ==
    /\ ret = <<TRUE>>
    /\ call.task["$type"] = Type("quantme", "OracleExpansionTask")
    /\ "oracleURL" \in DOMAIN call.task
    /\ "oracleCircuit" \notin DOMAIN call.task
----------------------------------------------------------------------------
(* isReplaceable, of the transformator of quantme/replacement and of the
   older transformator of replacement. requiredAttributesAvailable is not
   part of the sources at hand: its result is an input of the call. The
   collection is not updated while a call runs, so the awaits of the loop
   are not interleaved with anything. *)

\* the loop over the stored collection, from index j on; a detector that
\* cannot be read makes 'await matchesQRM' throw
RECURSIVE isReplaceableLoop(_, _)
isReplaceableLoop(j, element) ==
    IF j > Len(QRMs) THEN <<TRUE>>
    ELSE IF matchesQRMThrows(QRMs[j]) THEN <<"TypeError", "thrown">>
    ELSE IF matchesQRM(QRMs[j], element) THEN <<TRUE>>
    ELSE isReplaceableLoop(j + 1, element)

\* quantme/replacement/QuantMETransformator.isReplaceable
isReplaceable(element, attributesAvailable) ==
    IF ~attributesAvailable THEN <<FALSE>>
    ELSE isReplaceableLoop(1, element)

\* replacement/QuantMETransformator.isReplaceable
isReplaceableOlder(element, attributesAvailable) ==
    IF ~attributesAvailable THEN <<FALSE>>
    ELSE <<TRUE>>

\* the elements isReplaceable is called on: computation tasks with algorithm
\* 'a' and 'aa', and a task of another kind
ReplaceableElements ==
    {ComputationTask(2, 1, <<"a">>), ComputationTask(2, 1, <<"a", "a">>),
     Node(Type("quantme", "QuantumCircuitLoadingTask"), 2, 1)}

InitReplaceable ==
    /\ \E len \in 0..MaxQRMs : QRMs \in [1..len -> ResolveTemplates]
    /\ rootElements = <<>>
    /\ registry = <<>>
    /\ nextId = 0
    /\ hostCalls = <<>>
    /\ failOp = 0
    /\ pc = "Idle"
    /\ replacementTasks = <<>>
    /\ k = 0
    /\ i = 0
    /\ qrmArg = <<>>
    /\ matched = <<>>
    /\ result = <<>>
    /\ notifications = <<>>
    /\ layoutCalls = 0
    /\ updates = 0
    /\ snapshot = <<>>
    /\ \E fn \in {"isReplaceable", "isReplaceableOlder"} :
          \E element \in ReplaceableElements :
             \E attributesAvailable \in BOOLEAN :
                call = [fn |-> fn, element |-> element,
                        attributesAvailable |-> attributesAvailable]
    /\ ret = <<>>

CallIsReplaceable ==
    /\ call.fn = "isReplaceable"
    /\ ret = <<>>
    /\ ret' = isReplaceable(call.element, call.attributesAvailable)
    /\ UNCHANGED call

CallIsReplaceableOlder ==
    /\ call.fn = "isReplaceableOlder"
    /\ ret = <<>>
    /\ ret' = isReplaceableOlder(call.element, call.attributesAvailable)
    /\ UNCHANGED call

NextReplaceable ==
    \/ CallIsReplaceable /\ UNCHANGED passVars
    \/ CallIsReplaceableOlder /\ UNCHANGED passVars

SpecReplaceable == InitReplaceable /\ [][NextReplaceable]_vars

\* some template of the stored collection has a detector matching the element
someTemplateMatches(element) ==
    \E j \in 1..Len(QRMs) :
        /\ ~matchesQRMThrows(QRMs[j])
        /\ matchesQRM(QRMs[j], element)

\* C20: isReplaceable returns true only if some template of the collection
\* matches the element; for an element with its required attributes and no
\* matching template it returns false.
C20_ReplaceableOnlyIfSomeTemplateMatches ==
    Len(ret) = 1 =>
        /\ ret[1] => someTemplateMatches(call.element)
        /\ (call.attributesAvailable /\ ~someTemplateMatches(call.element)) => ~ret[1]

----------------------------------------------------------------------------
(* Specification SpecProperties: getPropertiesToCopy on every element built
   from the keys below; an element holds its own properties only *)

\* the keys an element may own, and the value each has when owned
PropertyKeys ==
    {"$type", "$parent", "$attrs", "id", "flowElements", "artifacts", "name",
     "sourceRef", "attachedToRef", "di"}

PropertyValue(key) ==
    CASE key = "$type" -> Type("bpmn", "SubProcess")
      [] key = "$parent" -> 1
      [] key = "$attrs" -> <<>>
      [] key = "id" -> 2
      [] key = "flowElements" -> <<3>>
      [] key = "artifacts" -> <<4>>
      [] key = "name" -> <<"a">>
      [] key = "sourceRef" -> Ref("template", 3)
      [] key = "attachedToRef" -> Ref("template", 3)
      [] key = "di" -> [isExpanded |-> TRUE]

InitProperties ==
    /\ PassUnused
    /\ \E keys \in SUBSET PropertyKeys :
          call = [fn |-> "getPropertiesToCopy",
                  element |-> [key \in keys |-> PropertyValue(key)]]
    /\ ret = <<>>

CallGetPropertiesToCopy ==
    /\ call.fn = "getPropertiesToCopy"
    /\ ret = <<>>
    /\ ret' = <<getPropertiesToCopy(call.element)>>
    /\ UNCHANGED call

NextProperties == CallGetPropertiesToCopy /\ UNCHANGED passVars

SpecProperties == InitProperties /\ [][NextProperties]_vars

\* C24: the map getPropertiesToCopy returns holds exactly the own properties
\* of the element whose key does not start with '$' and is none of id,
\* flowElements and artifacts, each with the value it has in the element.
C24_CopiedPropertiesAreTheCarryOverAttributes ==
    Len(ret) = 1 =>
        /\ DOMAIN ret[1] = DOMAIN call.element
                             \ {"$type", "$parent", "$attrs", "id", "flowElements", "artifacts"}
        /\ \A key \in DOMAIN ret[1] : ret[1][key] = call.element[key]

\* C24 witness: the properties of an element with a type, an id, children,
\* artifacts and a name have been taken, the name among them
C24_Witness ==
    /\ Len(ret) = 1
    /\ {"$type", "id", "flowElements", "artifacts", "name"} \subseteq DOMAIN call.element
    /\ "name" \in DOMAIN ret[1]

----------------------------------------------------------------------------
(* Specification SpecTermination: the pass with fairness. Every await of
   the pass is on a parse that settles, and the event loop resumes every
   continuation whose promise has settled: each step of a started pass that
   can be taken is taken. The start of a pass and the updates of the
   collection are up to the environment. *)

\* the collections of Spec, and collections with a template whose detector
\* holds no process
TerminationCollections ==
    Collections \cup {<<TemplateNoProcess, TemplateA>>, <<TemplateA, TemplateNoProcess>>}

InitTermination ==
    /\ PureUnused
    /\ QRMs \in TerminationCollections
    /\ \E diagram \in Diagrams :
          /\ rootElements = diagram.rootElements
          /\ registry = diagram.nodes
    /\ failOp = 0
    /\ InitPass

\* a step of a started pass
PassStep ==
    \/ ResumeMatchesQRM /\ UNCHANGED pureVars
    \/ ResumeResolved /\ UNCHANGED pureVars
    \/ ResumeReplaceByFragment /\ UNCHANGED pureVars
    \/ ResumeSpliced /\ UNCHANGED pureVars

NextTermination ==
    \/ StartReplacementProcess /\ UNCHANGED pureVars
    \/ PassStep
    \/ \E data \in TerminationCollections : QRMsUpdated(data) /\ UNCHANGED pureVars

\* what ResumeReplaceByFragment does to pc: enabled exactly when the parse of
\* the replacement is awaited
SpliceReturns == pc = "ParsingFragment" /\ pc' \in {"Spliced", "Thrown"}

SpecTermination ==
    /\ InitTermination /\ [][NextTermination]_vars
    /\ WF_vars(ResumeMatchesQRM /\ UNCHANGED pureVars)
    /\ WF_vars(ResumeResolved /\ UNCHANGED pureVars)
    /\ WF_pc(SpliceReturns)
    /\ WF_vars(ResumeSpliced /\ UNCHANGED pureVars)

\* every started pass comes to an end: by return, or by an exception that
\* rejects the promise of startReplacementProcess
PassEnds == (pc # "Idle") ~> (pc \in {"Done", "Aborted", "Returned", "Thrown"})

\* C25: every started pass eventually ends in Done or Aborted (or, with
\* nothing to replace, by returning at once): it does not wait forever, loop,
\* or end in any other way.
C25_StartedPassEndsDoneOrAborted ==
    (pc # "Idle") ~> (pc \in {"Done", "Aborted", "Returned"})

----------------------------------------------------------------------------
(* Specification SpecOlder: the pass of the older transformator
   (replacement/QuantMETransformator.js). replaceQuantMETask is an async
   function that startReplacementProcess calls without await: each call runs
   to its first await and hands back a promise. call holds the calls of
   replaceQuantMETask made so far, in call order. *)

\* getQuantMETasks of the older transformator: the flow elements of the
\* process itself whose type starts with 'quantme:'
getQuantMETasksOlder(elementRegistry, process) ==
    SelectSeq(elementRegistry[process]["flowElements"],
              LAMBDA x : startsWith(elementRegistry[x]["$type"], "quantme"))

\* replaceQuantMETask(task, parent) from its call to its first suspension:
\* with an empty collection it returns false, else it awaits
\* matchesQRM(QRMs[0], task)
replaceQuantMETask(task, parent) ==
    IF Len(QRMs) = 0
    THEN [task |-> task, parent |-> parent, i |-> 0, qrm |-> <<>>, state |-> "false"]
    ELSE [task |-> task, parent |-> parent, i |-> 1, qrm |-> <<QRMs[1]>>,
          state |-> "awaiting"]

\* startReplacementProcess of the older transformator: it has no await and
\* runs to its end; the promise replaceQuantMETask hands back is never falsy,
\* so the loop does not return early
StartReplacementProcessOlder ==
    /\ pc = "Idle"
    /\ LET rootElement == getRootProcess(diagramDefinitions)
       IN IF rootElement = NoElement
          THEN /\ pc' = "Returned"
               /\ UNCHANGED <<replacementTasks, call>>
          ELSE IF "flowElements" \notin DOMAIN registry[rootElement]
          THEN /\ pc' = "Thrown"
               /\ UNCHANGED <<replacementTasks, call>>
          ELSE LET quantmeTasks == getQuantMETasksOlder(registry, rootElement)
               IN /\ replacementTasks' = quantmeTasks
                  /\ call' = [n \in 1..Len(quantmeTasks) |->
                                 replaceQuantMETask(quantmeTasks[n], rootElement)]
                  /\ pc' = "Returned"
    /\ UNCHANGED <<QRMs, rootElements, registry, nextId, hostCalls, failOp, k, i,
                   qrmArg, matched, result, notifications, layoutCalls, updates,
                   snapshot, ret>>

\* the n-th call of replaceQuantMETask resumes with the result of matchesQRM
\* and goes on until it returns or suspends in the next matchesQRM
ResumeReplaceQuantMETask(n) ==
    /\ n \in 1..Len(call)
    /\ call[n].state = "awaiting"
    /\ IF matchesQRMThrows(call[n].qrm[1])
       THEN /\ call' = [call EXCEPT ![n].state = "thrown"]
            /\ UNCHANGED <<registry, nextId, hostCalls>>
       ELSE IF matchesQRM(call[n].qrm[1], registry[call[n].task])
       THEN LET created == createShape(hostState,
                                       Type("quantme", "ReadoutErrorMitigationTask"),
                                       call[n].parent)
            IN /\ registry' = created.host.registry
               /\ nextId' = created.host.nextId
               /\ hostCalls' = created.host.hostCalls
               /\ call' = [call EXCEPT ![n].state = "true"]
       ELSE /\ call' = IF call[n].i + 1 <= Len(QRMs)
                       THEN [call EXCEPT ![n].i = @ + 1,
                                         ![n].qrm = <<QRMs[call[n].i + 1]>>]
                       ELSE [call EXCEPT ![n].state = "false"]
            /\ UNCHANGED <<registry, nextId, hostCalls>>
    /\ UNCHANGED <<QRMs, rootElements, failOp, pc, replacementTasks, k, i, qrmArg,
                   matched, result, notifications, layoutCalls, updates, snapshot, ret>>

InitOlder ==
    /\ call = <<>>
    /\ ret = <<>>
    /\ QRMs \in Collections
    /\ \E diagram \in Diagrams :
          /\ rootElements = diagram.rootElements
          /\ registry = diagram.nodes
    /\ failOp = 0
    /\ InitPass

NextOlder ==
    \/ StartReplacementProcessOlder
    \/ \E n \in 1..MaxNodes : ResumeReplaceQuantMETask(n)
    \/ \E data \in Collections : QRMsUpdated(data) /\ UNCHANGED pureVars

SpecOlder == InitOlder /\ [][NextOlder]_vars

\* C28: the older pass stops at the first task for which replaceQuantMETask
\* finds no template, so that replaceQuantMETask is called for no later
\* task; and a call of replaceQuantMETask has ended, its createShape
\* included, before the call for the next task is made.
C28_OlderPassReplacesTaskByTask ==
    \A n \in 1..Len(call) :
       /\ call[n].state = "false" => Len(call) = n
       /\ n < Len(call) => call[n].state = "true"

====
